---- MODULE Spec2Model ----
(***************************************************************************)
(* Model of the directory-scan batch pipeline of civitai-archive:          *)
(*   core/batch_processor.py   BatchProcessor.process_files / cancel       *)
(*   core/file_processor.py    process_single_file and its steps           *)
(*   core/metadata_manager.py  process_directory                           *)
(*   utils/file_tracker.py     ProcessedFilesManager                       *)
(*   utils/process_manager.py  ProcessManager                              *)
(*   utils/string_utils.py     sanitize_filename                           *)
(*   web_app.py                /process-all and /cancel-processing         *)
(*                                                                         *)
(* The main thread of process_files (flag check, submit, collect) and the  *)
(* worker threads of the ThreadPoolExecutor are interleaved; each action   *)
(* holds at most one access to state shared between threads.               *)
(*                                                                         *)
(* Spec follows one batch with every pool size and interleaving; SpecRerun *)
(* follows repeated process_directory calls on one output directory;       *)
(* SpecLedger follows the calls on ProcessedFilesManager instances over a  *)
(* ledger file of any shape; SpecWeb follows the request handlers of       *)
(* /process-all and /cancel-processing and the threads they start.         *)
(* SpecFile, SpecTimeout and SpecCancel follow process_files calls of a    *)
(* client on one BatchProcessor; SpecBackup and SpecLedgerOps the ledger   *)
(* and its backups; SpecMissing update_missing_files_list; SpecProcess and *)
(* SpecQueue the ProcessManager; SpecSanitize sanitize_filename; SpecDirs  *)
(* the model directories of one batch; SpecFetch the user-content fetch.   *)
(* Faults of the environment are choices of the actions: mkdir raising in  *)
(* setup_export_directories, a request raising, a non-200 answer, and      *)
(* generate_html_summary (not part of the sources at hand) raising.        *)
(***************************************************************************)
EXTENDS Integers, Sequences, FiniteSets, TLC

\* ---------------------------------------------------------------- bounds
NumFiles == 2
MaxRuns == 2
MaxWorkers == 2

\* the functions handed to queue_process
NumFuncs == 2
Funcs == 1..NumFuncs

\* the page requests of one user-content fetch that are followed
MaxPages == 4

\* the number of model files discovered by the batch whose model
\* directories are followed
NumFound == 2

Files == 1..NumFiles

\* updatedAt values the registry can report for a version record
Stamps == {"t1"}
\* by-hash lookup of the registry: "miss" is a non-200 answer, a stamp is a
\* 200 answer whose payload carries modelId and that updatedAt
RegistryStates == {"miss"} \cup Stamps

VARIABLES
    srcExists,      \* srcExists[f]: the model file f is on disk
    content,        \* content[f]: the bytes of the model file f (a content id)
    readable,       \* readable[f]: open(f, 'rb') and the reads succeed
    silent,         \* the registry accepts requests and never answers
    skip_images,    \* BatchProcessor.skip_images
    user_images_limit, \* BatchProcessor.user_images_limit
    registry,       \* registry[f]: what the by-hash lookup answers for f
    disk,           \* disk[f]: artifacts in the model directory of f
    missingFile,    \* lines of missing_from_civitai.txt, <<>> = no file
    ledgerFile,     \* entries of processed_files.json for the paths of Files
    ledgerShape,    \* what processed_files.json holds, see LedgerShapes
    ledgerOthers,   \* entries of processed_files.json for other paths
    backups,        \* the processed_files.<date>.bak files of the output directory
    today,          \* the date datetime.now() gives, as a day number
    runs,           \* number of runs started so far
    direct,         \* TRUE: process_files called on a BatchProcessor by a client
    html_only,      \* BatchProcessor.html_only
    only_update,    \* BatchProcessor.only_update
    max_workers,    \* BatchProcessor.max_workers
    cancel_event,   \* BatchProcessor._cancel
    cancel_flag,    \* web_app.cancel_processing_flag
    opc,            \* position of the thread that runs process_files
    files,          \* the list handed to process_files
    futures,        \* futures: the files submitted, in submission order
    subIdx,         \* index of the for loop over files
    colIdx,         \* index of the for loop over futures
    metrics,        \* ProcessingMetrics
    dir_result,     \* how the process_directory call ended
    pc,             \* pc[f]: position of the task of f
    hash_value,     \* hash_value[f]: the local hash_value of the task of f
    result,         \* result[f]: outcome of the future of f
    mfLocal,        \* mfLocal[f]: entries read by update_missing_files_list
    wrote,          \* wrote[f]: artifacts the task of f wrote in this run
    netCalls,       \* netCalls[f]: registry requests the task of f made in this run
    detailFailed,   \* detailFailed[f]: fetch_model_details returned False in this run
    cancel_held,    \* cancel() came before the process_files call that is
                    \* running or ran last, and no reset() since
    prevOk,         \* files whose previous directory run ended in success
    quiet,          \* source directory and registry unchanged since the previous run
    added,          \* paths add_processed_file was called on in this run
    manager,        \* the ProcessedFilesManager instance held by a client
    processed_files,\* manager.processed_files
    ledger_call,    \* the last call made on the ledger
    ledger_raised,  \* that call raised
    loadedShape,    \* shape of the file the instance was constructed from
    missCount,      \* missCount[p]: cleanup passes that found p missing
    purgedAt,       \* purgedAt[p]: missCount[p] at the pass that purged p
    phase,          \* phase[p]: how far p is through add, save, fresh load
    missingLines,   \* missing_from_civitai.txt as update_missing_files_list
                    \* reads it: each entry line split at ' | '
    clock,          \* the second datetime.now() gives, as a number
    lastFail,       \* lastFail[n]: clock of the last failure recorded for the
                    \* name n, 0 when there is none or it was taken back
    processes,      \* ProcessManager._processes for the ids of ProcIds, in
                    \* the order of the dict
    others_active,  \* records of other ids, pending, first in the dict
    others_done,    \* records of other ids, completed before every end_time
                    \* of processes
    pm_now,         \* datetime.now() of the ProcessManager calls, as a number
    pm_call,        \* the last call made on the ProcessManager ("cleanup":
                    \* an add_process that ran _cleanup_old_processes)
    sanitize_arg,   \* the argument of a sanitize_filename call
    sanitized,      \* what sanitize_filename returned for it, and then for
                    \* its own result
    found,          \* the paths find_safetensors_files returned, each with
                    \* its directory and its stem
    model_dir,      \* model_dir[i]: what setup_export_directories returned
                    \* to the task of found[i], <<>> before the call
    artifacts,      \* the files the tasks wrote, each with the task that
                    \* wrote it
    behaviour,      \* behaviour[f]: what the queued function f does when
                    \* it is called, see Behaviours
    queue,          \* ProcessManager._queue: the functions waiting
    worker,         \* ProcessManager._worker: "waiting" in _queue.get(),
                    \* "running" a function, or "dead" (the thread ended)
    current,        \* the function the worker is running (0: none)
    put_order,      \* the functions in the order queue_process got them
    executed,       \* the functions in the order the worker called them
    fetcher,        \* the user-content fetch followed: "posts" for
                    \* fetch_user_posts, "images" for fetch_user_images
    fetch_pc,       \* its position: "idle", "loop" (about to request a
                    \* page) or "done" (it returned)
    model_version_id, \* its model_version_id is set (a version id is known)
    params_filter,  \* the filter its params carry: "version" or "model"
    next_page_url,  \* its next_page_url is set
    tried_fallback, \* tried_fallback of fetch_user_images
    total_requested,\* limit of fetch_user_images
    downloaded,     \* downloaded of fetch_user_images
    page,           \* the answer to the last page request
    page_requests,  \* page requests made so far
    fallbacks,      \* times the fetch fell back to the model-id filter
    processing_thread, \* web_app.processing_thread (0: None)
    thread,         \* thread[r]: the Thread object made by request r
    request         \* request[r]: position of the handler of request r

vars == <<behaviour, queue, worker, current, put_order, executed, fetcher, fetch_pc, model_version_id, params_filter, next_page_url,
          tried_fallback, total_requested, downloaded, page, page_requests,
          fallbacks, found, model_dir, artifacts, sanitize_arg, sanitized, processes, others_active, others_done,
          pm_now, pm_call, missingLines, clock, lastFail, backups, today,
          srcExists, content, readable, silent, skip_images,
          user_images_limit,
          hash_value, registry, disk, missingFile, ledgerFile, ledgerShape,
          ledgerOthers, runs, direct,
          html_only, only_update, max_workers, cancel_event,
          cancel_flag, opc, files, futures, subIdx, colIdx, metrics,
          dir_result, pc,
          result, mfLocal, wrote, netCalls, detailFailed,
          cancel_held, prevOk, quiet, added, manager, processed_files, ledger_call,
          ledger_raised, loadedShape, missCount, purgedAt, phase,
          processing_thread, thread, request>>

\* ------------------------------------------------------------- helpers
RECURSIVE SeqOf(_)
\* the members of a set of files in discovery (os.walk) order
SeqOf(S) ==
    IF S = {} THEN <<>>
    ELSE LET m == CHOOSE x \in S : \A y \in S : x <= y
         IN <<m>> \o SeqOf(S \ {m})

Range(s) == {s[i] : i \in 1..Len(s)}

RECURSIVE Filter(_, _)
\* [x for x in s if x in keep]
Filter(s, keep) ==
    IF s = <<>> THEN <<>>
    ELSE (IF Head(s) \in keep THEN <<Head(s)>> ELSE <<>>) \o Filter(Tail(s), keep)

\* Path.name of the model file
Name(f) == f

\* file_path.stem of the model files, as sequences of characters: every
\* second name holds a character that sanitize_filename replaces
Stems == << <<"a">>, <<"b", " ", "x">>, <<"c">>, <<"d", " ", "x">>,
            <<"e">>, <<"f", " ", "x">> >>

Stem(f) == Stems[f]

\* the characters of [a-zA-Z0-9._-] among those of the names
SafeChars == {"a", "b", "c", "d", "e", "f", "x", "_", "-", "."}

\* s.rfind(c), counted from 1: 0 when c is not in s
rfind(s, c) ==
    LET at == {i \in 1..Len(s) : s[i] = c}
    IN IF at = {} THEN 0 ELSE CHOOSE i \in at : \A j \in at : j <= i

\* os.path.splitext: the index at which the extension starts, Len + 1 when
\* there is none. The last dot starts the extension when it comes after the
\* last '/' and something other than dots stands between the two.
ExtStart(s) ==
    LET sepIndex == rfind(s, "/")
        dotIndex == rfind(s, ".")
    IN IF /\ dotIndex > sepIndex
          /\ \E i \in (sepIndex + 1)..(dotIndex - 1) : s[i] # "."
       THEN dotIndex ELSE Len(s) + 1

RECURSIVE Collapse(_, _)
\* re.sub of a run of the character c by one c
Collapse(s, c) ==
    IF Len(s) < 2 THEN s
    ELSE IF s[1] = c /\ s[2] = c THEN Collapse(Tail(s), c)
    ELSE <<s[1]>> \o Collapse(Tail(s), c)

RECURSIVE Strip(_)
\* str.strip('._')
Strip(s) ==
    IF s = <<>> THEN s
    ELSE IF s[1] \in {".", "_"} THEN Strip(Tail(s))
    ELSE IF s[Len(s)] \in {".", "_"} THEN Strip(SubSeq(s, 1, Len(s) - 1))
    ELSE s

\* utils/string_utils.py sanitize_filename
sanitize_filename(filename) ==
    LET k == ExtStart(filename)
        base_name == SubSeq(filename, 1, k - 1)
        extension == SubSeq(filename, k, Len(filename))
        replaced == [i \in 1..Len(base_name) |->
                        IF base_name[i] \in SafeChars THEN base_name[i] ELSE "_"]
        stripped == Strip(Collapse(Collapse(replaced, "_"), "."))
    IN (IF stripped = <<>> THEN <<"_">> ELSE stripped) \o extension

\* <output>/<dir_name>/<stem>_hash.json exists: extract_hash writes the
\* record of f into the directory of the sanitized stem under the raw stem
hash_json_exists(dir_name, stem) ==
    \E g \in Files : /\ disk[g].hash
                     /\ sanitize_filename(Stem(g)) = dir_name
                     /\ Stem(g) = stem

\* hashlib.sha256(...).hexdigest() of the contents a model file can have
Contents == {1, 2}
Digests == <<"h1", "h2">>
sha256(c) == Digests[c]

\* the JSON artifacts of one model directory: <stem>_hash.json (digest: the
\* hash_value it holds, "bad" when it does not parse or holds none),
\* <stem>_metadata.json, <stem>_civitai_model_version.json,
\* <stem>_civitai_model.json and civitai_version.txt
EmptyDir == [hash |-> FALSE, digest |-> "none",
             metadata |-> FALSE, version |-> "none",
             versiontxt |-> "none", model |-> "none"]

ProcessingMetrics == [total_files |-> 0, processed_files |-> 0,
                      failed_files |-> 0, skipped_files |-> 0]

\* ------------------------------------------------ utils/file_tracker.py
\* ProcessedFilesManager.cleanup_threshold
cleanup_threshold == 1000

\* os.path.exists(path) for a ledger path
PathExists(p) == p \in Files /\ srcExists[p]

\* what processed_files.json can hold: no file, the dict with the list
\* 'files' that save_processed_files writes, text that is not JSON, JSON of
\* another shape (a list, a dict without 'files'), and a dict whose 'files'
\* cannot be rebuilt (an entry without 'path', a value that is not a list)
BadShapes == {"notjson", "noshape", "nopath"}
LedgerShapes == {"absent", "ok"} \cup BadShapes

\* _load_processed_files on a dict with 'files': every entry of the file is
\* rebuilt with still_exists = os.path.exists(path)
load_processed_files(fileEntries) ==
    [i \in 1..Len(fileEntries) |->
        [path |-> fileEntries[i].path,
         still_exists |-> PathExists(fileEntries[i].path)]]

RECURSIVE cleanup_old_entries(_)
\* ProcessedFilesManager.cleanup_old_entries
cleanup_old_entries(entries) ==
    IF entries = <<>> THEN <<>>
    ELSE LET e == Head(entries)
             rest == cleanup_old_entries(Tail(entries))
         IN IF PathExists(e.path)
            THEN <<[e EXCEPT !.still_exists = TRUE]>> \o rest
            ELSE IF ~e.still_exists THEN rest
            ELSE <<[e EXCEPT !.still_exists = FALSE]>> \o rest

\* save_processed_files whose cleanup pass flags and never purges
save_flag_only(entries, others) ==
    IF Len(entries) + others > cleanup_threshold
    THEN [i \in 1..Len(entries) |->
            [entries[i] EXCEPT !.still_exists = PathExists(entries[i].path)]]
    ELSE entries

\* ProcessedFilesManager.save_processed_files: the entries written to the
\* file. The ledger holds others further entries, for paths outside Files
\* whose files are on disk: a cleanup pass keeps them
save_processed_files(entries, others) ==
    IF Len(entries) + others > cleanup_threshold
    THEN cleanup_old_entries(entries) ELSE entries

\* the number of backups save_processed_files keeps
max_backups == 5

\* what processed_files.json holds
file_content(shape, entries, others) ==
    [shape |-> shape, files |-> entries, others |-> others]

\* for old_backup in sorted(glob('processed_files.*.bak'))[:-5]: unlink. The
\* names differ in the date YYYYMMDD and sort by it
prune_backups(bk) ==
    IF Cardinality(bk) > max_backups
    THEN {b \in bk : Cardinality({c \in bk : c.day > b.day}) < max_backups}
    ELSE bk

\* the backup step that unlinks nothing
backup_keep_all(bk, day, c) ==
    IF c.shape = "absent" THEN bk
    ELSE {b \in bk : b.day # day} \cup {[day |-> day, content |-> c]}

\* the backup step of save_processed_files: when the ledger file exists it
\* is copied to processed_files.<today>.bak (over the backup of the same
\* day), then all but the last five backups are removed
backup_before_save(bk, day, c) ==
    IF c.shape = "absent" THEN bk
    ELSE prune_backups({b \in bk : b.day # day}
                         \cup {[day |-> day, content |-> c]})

\* ProcessedFilesManager.is_file_processed
is_file_processed(entries, p) ==
    \E i \in 1..Len(entries) : entries[i].path = p /\ entries[i].still_exists

\* add_processed_file without the search for an entry of the path
add_always_appends(entries, p) ==
    Append(entries, [path |-> p, still_exists |-> TRUE])

\* ProcessedFilesManager.add_processed_file
add_processed_file(entries, p) ==
    IF \E i \in 1..Len(entries) : entries[i].path = p
    THEN [i \in 1..Len(entries) |->
            IF entries[i].path = p
            THEN [entries[i] EXCEPT !.still_exists = TRUE] ELSE entries[i]]
    ELSE Append(entries, [path |-> p, still_exists |-> TRUE])

RECURSIVE add_all(_, _)
\* for file_path in ...: files_manager.add_processed_file(file_path)
add_all(entries, ps) ==
    IF ps = <<>> THEN entries
    ELSE add_all(add_processed_file(entries, Head(ps)), Tail(ps))

\* get_new_files without the ledger test: every file found is new
get_all_files(entries) ==
    SeqOf({f \in Files : srcExists[f]})

\* ProcessedFilesManager.get_new_files
get_new_files(entries) ==
    Filter(SeqOf({f \in Files : srcExists[f]}),
           {f \in Files : ~is_file_processed(entries, f)})

\* ------------------------------------------- core/metadata_manager.py
\* find_safetensors_files
find_safetensors_files == SeqOf({f \in Files : srcExists[f]})

\* the names read from missing_from_civitai.txt (line.split(' | ')[-1])
missing_models == {missingFile[i].name : i \in 1..Len(missingFile)}

\* the discovery part of process_directory: the list handed to process_files
Discover(html, upd, new, skipm) ==
    IF new /\ ~html
    THEN LET nf == get_new_files(load_processed_files(ledgerFile))
         IN IF skipm /\ nf # <<>>
            THEN Filter(nf, {f \in Files : Name(f) \notin missing_models})
            ELSE nf
    ELSE IF upd
    THEN Filter(find_safetensors_files,
                {f \in Files : hash_json_exists(Stem(f), Stem(f))})
    ELSE find_safetensors_files

\* process_directory returns (0, 0, 0) before the batch when nothing is found
\* (the update-only branch has no such return)
EarlyReturn(html, upd, new, lst) ==
    lst = <<>> /\ ((new /\ ~html) \/ ~upd)

\* --------------------------------------------- core/file_processor.py
\* missing_read that keeps the old line of the name
missing_read_all(name) ==
    missingFile

\* update_missing_files_list, first half: the lines kept from the file
missing_read(name) ==
    Filter(missingFile, {l \in Range(missingFile) : l.name # name})

\* update_missing_files_list, second half: the new content of the file; the
\* new line carries the latest timestamp and sorts first; no entries at all
\* removes the file
missing_write(entries, name, status_code) ==
    IF status_code # "None"
    THEN <<[name |-> name, status |-> status_code]>> \o entries
    ELSE entries

\* safetensors_path.name of the files whose lookups fail, each as the list
\* of its parts between ' | ': "a.safetensors", "b.safetensors" and
\* "a | b.safetensors"
MissingNames == {<<"a.safetensors">>, <<"b.safetensors">>,
                 <<"a", "b.safetensors">>}

\* f"{timestamp} | Status {status_code} | {name}", as line.split(' | ')
\* gives it back (the second part is written without the word Status)
format_entry(t, status_code, name) ==
    <<t, status_code>> \o name

\* filename != safetensors_path.name, filename being line.split(' | ')[-1]:
\* the last part of a line is the name only when the name has one part
other_name(line, name) ==
    ~(Len(name) = 1 /\ line[Len(line)] = name[1])

RECURSIVE sorted_reverse(_)
\* sorted(entries, reverse=True): the lines start with the timestamp
sorted_reverse(entries) ==
    IF entries = <<>> THEN <<>>
    ELSE LET m == CHOOSE i \in 1..Len(entries) :
                     \A j \in 1..Len(entries) : entries[j][1] <= entries[i][1]
         IN <<entries[m]>> \o
            sorted_reverse(SubSeq(entries, 1, m - 1)
                             \o SubSeq(entries, m + 1, Len(entries)))

\* update_missing_files_list: the entry lines of the file after the call
\* (without entries the file is removed)
update_missing_files_list(lines, name, status_code, t) ==
    LET keep == SeqOf({i \in 1..Len(lines) : other_name(lines[i], name)})
        entries == [k \in 1..Len(keep) |-> lines[keep[k]]]
    IN sorted_reverse(IF status_code # "None"
                      THEN Append(entries, format_entry(t, status_code, name))
                      ELSE entries)

\* check_for_updates: TRUE when the pipeline has to go on. It reads
\* civitai_version.txt in the model directory
check_for_updates(d, reg) ==
    IF d.versiontxt = "none" THEN TRUE
    ELSE IF reg = "miss" THEN TRUE
    ELSE reg # d.versiontxt

\* check_for_updates issues its by-hash request only when the file is there
check_requests(d) == IF d.versiontxt = "none" THEN {} ELSE {"check"}

\* the three files html_only needs, all looked up under the sanitized stem
required_files(d, f) ==
    LET base_name == sanitize_filename(Stem(f))
    IN /\ d.model # "none"
       /\ d.version # "none"
       /\ hash_json_exists(base_name, base_name)

\* no page requested yet
NoPage == [status |-> "none", own |-> 0, other |-> 0, next |-> FALSE]

\* ------------------------------------------------------------ initial
\* what a process_directory call has given back so far
NoResult == [kind |-> "none", value |-> <<0, 0, 0>>]
Raised == [kind |-> "raised", value |-> <<0, 0, 0>>]
Returned(p, f, s) == [kind |-> "tuple", value |-> <<p, f, s>>]

\* manager.processed_files of an instance built without a ledger file
EmptyLedger == [files |-> <<>>, others |-> 0]

\* the /process-all requests followed
Requests == 1..MaxRuns

\* an output directory without artifacts, no run started yet
InitStore ==
    /\ disk = [f \in Files |-> EmptyDir]
    /\ missingFile = <<>>
    /\ ledgerFile = <<>>
    /\ backups = {}
    /\ today = 1
    /\ runs = 0
    /\ direct = FALSE
    /\ html_only = FALSE
    /\ only_update = FALSE
    /\ max_workers = 1
    /\ cancel_event = FALSE
    /\ cancel_flag = FALSE
    /\ opc = "idle"
    /\ files = <<>>
    /\ futures = <<>>
    /\ subIdx = 1
    /\ colIdx = 1
    /\ metrics = ProcessingMetrics
    /\ dir_result = NoResult
    /\ pc = [f \in Files |-> "idle"]
    /\ hash_value = [f \in Files |-> "unset"]
    /\ result = [f \in Files |-> "none"]
    /\ mfLocal = [f \in Files |-> <<>>]
    /\ wrote = [f \in Files |-> {}]
    /\ netCalls = [f \in Files |-> {}]
    /\ detailFailed = [f \in Files |-> FALSE]
    /\ cancel_held = FALSE
    /\ prevOk = {}
    /\ quiet = FALSE
    /\ added = {}
    /\ manager = "none"
    /\ processed_files = EmptyLedger
    /\ ledger_call = "none"
    /\ ledger_raised = FALSE
    /\ loadedShape = "none"
    /\ missCount = [p \in Files |-> 0]
    /\ purgedAt = [p \in Files |-> 0]
    /\ phase = [p \in Files |-> "none"]
    /\ sanitized = <<>>
    /\ model_dir = [i \in 1..NumFound |-> <<>>]
    /\ artifacts = {}
    /\ queue = <<>>
    /\ worker = "waiting"
    /\ current = 0
    /\ put_order = <<>>
    /\ executed = <<>>
    /\ fetch_pc = "idle"
    /\ next_page_url = FALSE
    /\ tried_fallback = FALSE
    /\ downloaded = 0
    /\ page = NoPage
    /\ page_requests = 0
    /\ fallbacks = 0
    /\ processes = <<>>
    /\ pm_now = 0
    /\ pm_call = "none"
    /\ missingLines = <<>>
    /\ clock = 0
    /\ lastFail = [n \in MissingNames |-> 0]
    /\ processing_thread = 0
    /\ thread = [r \in Requests |-> "none"]
    /\ request = [r \in Requests |-> "idle"]

\* fetch_user_posts called with a version id
FetchDefaults ==
    /\ fetcher = "posts"
    /\ model_version_id = TRUE
    /\ params_filter = "version"
    /\ total_requested = 0

\* functions that return
QueueDefaults ==
    /\ behaviour = [f \in Funcs |-> "returns"]

\* no file discovered yet
SideDefaults ==
    /\ found = <<>>
    /\ FetchDefaults
    /\ QueueDefaults

\* BatchProcessor() built with the defaults of its constructor, over model
\* files of one content and a registry that answers
DefaultInputs ==
    /\ content = [f \in Files |-> 1]
    /\ readable = [f \in Files |-> TRUE]
    /\ silent = FALSE
    /\ skip_images = FALSE
    /\ user_images_limit = "0"
    /\ others_active = 0
    /\ others_done = 0
    /\ sanitize_arg = <<>>
    /\ SideDefaults

\* every model file of the source directory is there; the registry knows
\* each of them or not; the output directory holds no ledger or a file that
\* is not one
Init ==
    /\ srcExists = [f \in Files |-> TRUE]
    /\ registry \in [Files -> RegistryStates]
    /\ ledgerShape \in {"absent"} \cup BadShapes
    /\ ledgerOthers = 0
    /\ DefaultInputs
    /\ InitStore

envVars == <<srcExists, registry>>
storeVars == <<disk, missingFile, ledgerFile, ledgerShape, ledgerOthers>>
procVars == <<direct, html_only, only_update, max_workers>>
taskVars == <<pc, hash_value, result, mfLocal, wrote, netCalls, detailFailed>>
mainVars == <<opc, files, futures, subIdx, colIdx, metrics, dir_result>>
ghostVars == <<cancel_held, prevOk, quiet, added>>
ledgerVars == <<manager, processed_files, ledger_call, ledger_raised,
                loadedShape, missCount, purgedAt, phase>>
webVars == <<processing_thread, thread, request>>
backupVars == <<backups, today>>
pipeVars == <<content, readable, silent, skip_images, user_images_limit>>
missVars == <<missingLines, clock, lastFail>>
pmVars == <<processes, others_active, others_done, pm_now, pm_call>>
strVars == <<sanitize_arg, sanitized>>
dirVars == <<found, model_dir, artifacts>>
fetchVars == <<fetcher, fetch_pc, model_version_id, params_filter,
               next_page_url, tried_fallback, total_requested, downloaded,
               page, page_requests, fallbacks>>
queueVars == <<behaviour, queue, worker, current, put_order, executed>>
sideVars == <<dirVars, fetchVars, queueVars>>
unitVars == <<pipeVars, missVars, pmVars, strVars, sideVars>>

\* the state every process_files call starts from
ResetRun(lst) ==
    /\ files' = lst
    /\ futures' = <<>>
    /\ subIdx' = 1
    /\ colIdx' = 1
    /\ metrics' = [ProcessingMetrics EXCEPT !.total_files = Len(lst)]
    /\ pc' = [f \in Files |-> "idle"]
    /\ hash_value' = [f \in Files |-> "unset"]
    /\ result' = [f \in Files |-> "none"]
    /\ mfLocal' = [f \in Files |-> <<>>]
    /\ wrote' = [f \in Files |-> {}]
    /\ netCalls' = [f \in Files |-> {}]
    /\ detailFailed' = [f \in Files |-> FALSE]
    /\ added' = {}

\* ------------------------------------------------------- environment
\* the registry record of f changes between two runs
RegistryChange(f) ==
    /\ opc \in {"idle", "returned"}
    /\ opc = "returned" => direct
    /\ runs < MaxRuns
    /\ \E r \in RegistryStates \ {registry[f]} :
          registry' = [registry EXCEPT ![f] = r]
    /\ quiet' = FALSE
    /\ UNCHANGED <<backupVars, unitVars, ledgerVars, webVars, srcExists, storeVars, runs, procVars, cancel_event,
                   cancel_flag, taskVars, mainVars, cancel_held, prevOk, added>>

\* the hash record of f is damaged between two runs: cut short, or
\* rewritten without hash_value
RecordDamaged(f) ==
    /\ opc \in {"idle", "returned"}
    /\ runs < MaxRuns
    /\ disk[f].hash /\ disk[f].digest # "bad"
    /\ disk' = [disk EXCEPT ![f].digest = "bad"]
    /\ quiet' = FALSE
    /\ UNCHANGED <<backupVars, unitVars, ledgerVars, webVars, envVars,
                   missingFile, ledgerFile, ledgerShape, ledgerOthers, runs,
                   procVars, cancel_event, cancel_flag, taskVars, mainVars,
                   cancel_held, prevOk, added>>

\* the model file f is overwritten with other bytes between two runs
ContentChange(f) ==
    /\ opc \in {"idle", "returned"}
    /\ srcExists[f]
    /\ runs < MaxRuns
    /\ \E c \in Contents \ {content[f]} :
          content' = [content EXCEPT ![f] = c]
    /\ quiet' = FALSE
    /\ UNCHANGED <<sideVars, strVars, pmVars, missVars, backupVars, readable, silent, skip_images, user_images_limit, ledgerVars,
                   webVars, envVars, storeVars, runs, procVars, cancel_event,
                   cancel_flag, taskVars, mainVars, cancel_held, prevOk, added>>

\* ------------------------------------------------------ entry points
\* a client calls process_files(lst, output_dir) on its BatchProcessor; the
\* processor of the previous direct call is used again
StartDirect(S, html, upd, mw) ==
    /\ opc = "idle" \/ (opc = "returned" /\ direct)
    /\ runs < MaxRuns
    /\ runs' = runs + 1
    /\ direct' = TRUE
    /\ html_only' = html
    /\ only_update' = upd
    /\ max_workers' = mw
    /\ cancel_event' = (direct /\ cancel_event)
    /\ ResetRun(SeqOf(S))
    /\ opc' = "check"
    /\ prevOk' = {}
    /\ cancel_held' = (direct /\ cancel_event)
    /\ quiet' = FALSE
    /\ dir_result' = NoResult
    /\ UNCHANGED <<backupVars, unitVars, ledgerVars, webVars, envVars, storeVars, cancel_flag>>

\* ProcessedFilesManager(base_output_path) of process_directory, called
\* before its try block: "raised", an instance that holds data of another
\* shape ("raw"), or a usable instance
files_manager(html) ==
    IF html THEN "none"
    ELSE IF ledgerShape = "nopath" THEN "raised"
    ELSE IF ledgerShape = "noshape" THEN "raw"
    ELSE "ok"

\* /process-all starts process_all_models_task, which clears the flag and
\* calls process_directory up to the call of processor.process_files. The
\* exception of the ledger constructor leaves process_directory; the
\* exception of get_new_files on a raw instance is caught and gives (0, 0, 0)
process_directory(html, upd, new, skipm, mw) ==
    /\ opc = "idle" \/ (opc = "returned" /\ direct)
    /\ runs < MaxRuns
    /\ runs' = runs + 1
    /\ direct' = FALSE
    /\ html_only' = html
    /\ only_update' = upd
    /\ max_workers' = mw
    /\ cancel_event' = FALSE
    /\ cancel_flag' = FALSE
    /\ IF files_manager(html) = "raised"
       THEN /\ ResetRun(<<>>)
            /\ opc' = "idle"
            /\ dir_result' = Raised
       ELSE IF files_manager(html) = "raw" /\ new
       THEN /\ ResetRun(<<>>)
            /\ opc' = "idle"
            /\ dir_result' = Returned(0, 0, 0)
       ELSE LET lst == Discover(html, upd, new, skipm)
            IN /\ ResetRun(lst)
               /\ IF EarlyReturn(html, upd, new, lst)
                  THEN opc' = "idle" /\ dir_result' = Returned(0, 0, 0)
                  ELSE opc' = "check" /\ dir_result' = NoResult
    /\ UNCHANGED <<backupVars, unitVars, ledgerVars, webVars, envVars, storeVars, cancel_held, prevOk, quiet>>

\* BatchProcessor.cancel, called by a client that holds the processor
cancel ==
    /\ direct
    /\ opc # "idle"
    /\ ~cancel_event
    /\ cancel_event' = TRUE
    /\ UNCHANGED <<backupVars, unitVars, ledgerVars, webVars, envVars, storeVars, runs, procVars, cancel_flag,
                   taskVars, mainVars, ghostVars>>

\* BatchProcessor.reset, called by a client that holds the processor: the
\* event is cleared and self.metrics is a new ProcessingMetrics
reset ==
    /\ direct
    /\ opc # "idle"
    /\ cancel_event' = FALSE
    /\ metrics' = ProcessingMetrics
    /\ cancel_held' = FALSE
    /\ UNCHANGED <<backupVars, unitVars, ledgerVars, webVars, envVars, storeVars, runs, procVars, cancel_flag,
                   taskVars, opc, files, futures, subIdx, colIdx, dir_result,
                   prevOk, quiet, added>>

\* /cancel-processing while the processing thread is alive
cancel_processing ==
    /\ ~direct
    /\ opc \in {"check", "submit", "collect", "returned"}
    /\ ~cancel_flag
    /\ cancel_flag' = TRUE
    /\ UNCHANGED <<backupVars, unitVars, ledgerVars, webVars, envVars, storeVars, runs, procVars, cancel_event,
                   taskVars, mainVars, ghostVars>>

\* -------------------------------- BatchProcessor.process_files, main thread
\* SubmitCheck without the test of the cancel flag
SubmitCheckNoCancel ==
    /\ opc = "check"
    /\ opc' = IF subIdx > Len(files) THEN "collect" ELSE "submit"
    /\ UNCHANGED <<backupVars, unitVars, ledgerVars, webVars, dir_result, envVars, storeVars, runs, procVars, cancel_event,
                   cancel_flag, taskVars, files, futures, subIdx, colIdx,
                   metrics, ghostVars>>

\* the head of the for loop: the end of the list, or the flag check
SubmitCheck ==
    /\ opc = "check"
    /\ opc' = IF subIdx > Len(files) \/ cancel_event THEN "collect" ELSE "submit"
    /\ UNCHANGED <<backupVars, unitVars, ledgerVars, webVars, dir_result, envVars, storeVars, runs, procVars, cancel_event,
                   cancel_flag, taskVars, files, futures, subIdx, colIdx,
                   metrics, ghostVars>>

\* executor.submit(process_single_file, file, ...)
Submit ==
    /\ opc = "submit"
    /\ futures' = Append(futures, files[subIdx])
    /\ pc' = [pc EXCEPT ![files[subIdx]] = "queued"]
    /\ subIdx' = subIdx + 1
    /\ opc' = "check"
    /\ UNCHANGED <<backupVars, unitVars, ledgerVars, webVars, dir_result, envVars, storeVars, runs, procVars, cancel_event,
                   cancel_flag, hash_value, result, mfLocal, wrote, netCalls,
                   detailFailed, files, colIdx, metrics, ghostVars>>

\* Count without the except branch: a raised exception is not counted
CountDropRaised(m, res) ==
    IF res = "true"
    THEN [m EXCEPT !.processed_files = @ + 1]
    ELSE IF res = "false" THEN [m EXCEPT !.failed_files = @ + 1]
    ELSE m

\* the counters after future.result() of one future
Count(m, res) ==
    IF res = "true"
    THEN [m EXCEPT !.processed_files = @ + 1]
    ELSE [m EXCEPT !.failed_files = @ + 1]

\* Collect without the try: the exception of a task leaves process_files
CollectAbort ==
    /\ opc = "collect"
    /\ colIdx <= Len(futures)
    /\ pc[futures[colIdx]] = "done"
    /\ IF result[futures[colIdx]] = "raised"
       THEN opc' = "returned" /\ UNCHANGED <<metrics, colIdx>>
       ELSE /\ metrics' = Count(metrics, result[futures[colIdx]])
            /\ colIdx' = colIdx + 1
            /\ UNCHANGED opc
    /\ UNCHANGED <<backupVars, unitVars, ledgerVars, webVars, dir_result, envVars, storeVars, runs, procVars, cancel_event,
                   cancel_flag, taskVars, files, futures, subIdx, ghostVars>>

\* for future in futures: future.result() blocks until the task is done
Collect ==
    /\ opc = "collect"
    /\ colIdx <= Len(futures)
    /\ pc[futures[colIdx]] = "done"
    /\ metrics' = Count(metrics, result[futures[colIdx]])
    /\ colIdx' = colIdx + 1
    /\ UNCHANGED <<backupVars, unitVars, ledgerVars, webVars, dir_result, envVars, storeVars, runs, procVars, cancel_event,
                   cancel_flag, taskVars, opc, files, futures, subIdx,
                   ghostVars>>

\* Return without the wait for the futures not yet collected
ReturnEarly ==
    /\ opc = "collect"
    /\ opc' = "returned"
    /\ UNCHANGED <<backupVars, unitVars, ledgerVars, webVars, dir_result, envVars, storeVars, runs, procVars, cancel_event,
                   cancel_flag, taskVars, files, futures, subIdx, colIdx,
                   metrics, ghostVars>>

\* return self.metrics
Return ==
    /\ opc = "collect"
    /\ colIdx > Len(futures)
    /\ opc' = "returned"
    /\ UNCHANGED <<backupVars, unitVars, ledgerVars, webVars, dir_result, envVars, storeVars, runs, procVars, cancel_event,
                   cancel_flag, taskVars, files, futures, subIdx, colIdx,
                   metrics, ghostVars>>

\* the list process_directory hands to add_processed_file
LedgerPaths(lst, m) == SubSeq(lst, 1, m.processed_files)

\* process_directory after process_files has returned. On a raw instance
\* the ledger update raises; the exception is caught and the counters are
\* returned
process_directory_finish ==
    /\ opc = "returned"
    /\ ~direct
    /\ cancel_event' = (cancel_event \/ cancel_flag)
    /\ IF ~(html_only \/ only_update) /\ files_manager(html_only) = "ok"
       THEN LET ps == LedgerPaths(files, metrics)
                others == IF ledgerShape = "ok" THEN ledgerOthers ELSE 0
            IN /\ ledgerFile' = save_processed_files(
                                  add_all(load_processed_files(ledgerFile), ps),
                                  others)
               /\ ledgerShape' = "ok"
               /\ ledgerOthers' = others
               /\ backups' = backup_before_save(backups, today,
                                 file_content(ledgerShape, ledgerFile, ledgerOthers))
               /\ added' = Range(ps)
       ELSE UNCHANGED <<ledgerFile, ledgerShape, ledgerOthers, backups, added>>
    /\ dir_result' = Returned(metrics.processed_files, metrics.failed_files,
                              metrics.skipped_files)
    /\ prevOk' = IF html_only \/ only_update THEN {}
                 ELSE {f \in Files : result[f] = "true"}
    /\ quiet' = TRUE
    /\ opc' = "idle"
    /\ cancel_flag' = FALSE
    /\ UNCHANGED <<today, unitVars, ledgerVars, webVars, envVars, disk, missingFile, runs, procVars, taskVars,
                   files, futures, subIdx, colIdx, metrics, cancel_held>>

\* ------------------------------------- process_single_file, worker threads
Running == {f \in Files : pc[f] \in {"version", "mfwrite", "detail"}}

\* the task of f is the oldest one waiting in the executor's queue
FirstQueued(f) ==
    \E i \in 1..Len(futures) :
        /\ futures[i] = f
        /\ pc[f] = "queued"
        /\ \A j \in 1..(i - 1) : pc[futures[j]] # "queued"

\* the task of f ends with outcome res
Done(f, res) ==
    /\ pc' = [pc EXCEPT ![f] = "done"]
    /\ result' = [result EXCEPT ![f] = res]

\* the html_only branch once the directories exist
html_only_result(d, f, summary_ok) ==
    IF ~required_files(d, f) THEN "false"
    ELSE IF summary_ok THEN "true" ELSE "raised"

\* the model directory after the hash step and the metadata step: extract_hash
\* writes <stem>_hash.json with the digest h, only_update writes nothing
after_hash(d, upd, h) ==
    IF upd THEN d
    ELSE [d EXCEPT !.hash = TRUE, !.digest = h, !.metadata = TRUE]

\* the hash step gives a hash: in only_update mode the record exists, parses
\* and holds a hash_value; else extract_hash can read the source file
hash_found(d, f, upd) ==
    IF upd THEN d.hash /\ d.digest # "bad" ELSE readable[f]

\* the hash step once a hash is there: the stored value in only_update mode,
\* else the digest of the file content
hash_step(d, f, upd) == IF upd THEN d.digest ELSE sha256(content[f])

\* the hash step without its except branches: the exception leaves the task
hash_failure_raises(upd) == "raised"

\* what process_single_file returns when the hash step gave no hash: the
\* exception of reading the record is caught (only_update), extract_hash
\* returns None (else)
hash_failure(upd) == "false"

\* a worker takes the task and runs it up to the version fetch: the existence
\* test, setup_export_directories (mkdir may raise), the html_only branch,
\* the hash step, check_for_updates and the metadata step. Without a hash
\* hash_value is "None"
TaskBegin(f) ==
    /\ FirstQueued(f)
    /\ Cardinality(Running) < max_workers
    /\ \E mkdir_ok \in BOOLEAN, summary_ok \in BOOLEAN :
        IF ~srcExists[f]
        THEN /\ mkdir_ok /\ summary_ok
             /\ Done(f, "false")
             /\ UNCHANGED <<disk, wrote, netCalls, hash_value>>
        ELSE IF ~mkdir_ok
        THEN /\ summary_ok
             /\ Done(f, "raised")
             /\ UNCHANGED <<disk, wrote, netCalls, hash_value>>
        ELSE IF html_only
        THEN /\ ~required_files(disk[f], f) => summary_ok
             /\ Done(f, html_only_result(disk[f], f, summary_ok))
             /\ wrote' = [wrote EXCEPT ![f] = {"dirs"} \cup
                    (IF required_files(disk[f], f) /\ summary_ok THEN {"html"} ELSE {})]
             /\ UNCHANGED <<disk, netCalls, hash_value>>
        ELSE IF ~hash_found(disk[f], f, only_update)
        THEN /\ summary_ok
             /\ hash_value' = [hash_value EXCEPT ![f] = "None"]
             /\ Done(f, hash_failure(only_update))
             /\ wrote' = [wrote EXCEPT ![f] = {"dirs"}]
             /\ UNCHANGED <<disk, netCalls>>
        ELSE /\ summary_ok
             /\ ~(silent /\ check_requests(disk[f]) # {})
             /\ hash_value' = [hash_value EXCEPT
                                 ![f] = hash_step(disk[f], f, only_update)]
             /\ disk' = [disk EXCEPT ![f] =
                           after_hash(@, only_update, sha256(content[f]))]
             /\ wrote' = [wrote EXCEPT ![f] = {"dirs"} \cup
                    (IF only_update THEN {} ELSE {"hash", "metadata"})]
             /\ netCalls' = [netCalls EXCEPT ![f] = check_requests(disk[f])]
             /\ IF check_for_updates(disk[f], registry[f])
                THEN pc' = [pc EXCEPT ![f] = "version"] /\ UNCHANGED result
                ELSE Done(f, "true")
    /\ UNCHANGED <<backupVars, unitVars, ledgerVars, webVars, envVars, missingFile, ledgerFile, ledgerShape,
                   ledgerOthers, runs, procVars,
                   cancel_event, cancel_flag, mfLocal, detailFailed,
                   mainVars, ghostVars>>

\* fetch_version_data up to the read of the missing list: the request raises,
\* is answered 200 (payload saved, modelId returned) or is answered non-200
\* (error payload saved, update_missing_files_list reads the list).
\* session.get(civitai_url) is called without a timeout: it returns only when
\* the registry answers or the connection fails
TaskVersion(f) ==
    /\ pc[f] = "version"
    /\ ~silent
    /\ netCalls' = [netCalls EXCEPT ![f] = @ \cup {"version"}]
    /\ \E raised \in BOOLEAN :
        IF raised
        THEN /\ Done(f, "false")
             /\ UNCHANGED <<disk, wrote, mfLocal>>
        ELSE IF registry[f] # "miss"
        THEN /\ disk' = [disk EXCEPT ![f].version = registry[f]]
             /\ wrote' = [wrote EXCEPT ![f] = @ \cup {"version"}]
             /\ pc' = [pc EXCEPT ![f] = "detail"]
             /\ UNCHANGED <<result, mfLocal>>
        ELSE /\ disk' = [disk EXCEPT ![f].version = "err"]
             /\ wrote' = [wrote EXCEPT ![f] = @ \cup {"version"}]
             /\ mfLocal' = [mfLocal EXCEPT ![f] = missing_read(Name(f))]
             /\ pc' = [pc EXCEPT ![f] = "mfwrite"]
             /\ UNCHANGED result
    /\ UNCHANGED <<backupVars, unitVars, ledgerVars, webVars, envVars, missingFile, ledgerFile, ledgerShape,
                   ledgerOthers, runs, procVars, hash_value,
                   cancel_event, cancel_flag, detailFailed, mainVars, ghostVars>>

\* update_missing_files_list writes the list back; fetch_version_data returns
\* None and process_single_file returns False
TaskMissingWrite(f) ==
    /\ pc[f] = "mfwrite"
    /\ missingFile' = missing_write(mfLocal[f], Name(f), "404")
    /\ mfLocal' = [mfLocal EXCEPT ![f] = <<>>]
    /\ Done(f, "false")
    /\ UNCHANGED <<backupVars, unitVars, ledgerVars, webVars, envVars, disk, ledgerFile, ledgerShape, ledgerOthers,
                   runs, procVars, cancel_event, hash_value,
                   cancel_flag, wrote, netCalls, detailFailed, mainVars,
                   ghostVars>>

\* what process_single_file returns once fetch_version_data returned a model
\* id: the value of fetch_model_details is dropped, generate_html_summary is
\* called and may raise
detail_result(details_ok, summary_ok) ==
    IF summary_ok THEN "true" ELSE "raised"

\* BatchProcessor.user_images_level: the default of the constructor, which
\* process_directory never overrides
user_images_level == "ALL"

\* bool(v) of an argument value
truthy(v) == v \notin {"0", ""}

\* what the parameters user_images_level and user_posts_limit of
\* process_single_file receive: process_files passes session,
\* self.user_images_limit, self.user_images_level by position
arg_user_images_level == user_images_limit
arg_user_posts_limit == user_images_level

\* if not skip_images and (user_posts_limit or 0): fetch_user_posts(...)
calls_fetch_user_posts == ~skip_images /\ truthy(arg_user_posts_limit)

\* the requests of fetch_user_posts to /api/v1/images: (user_images_level or
\* 'ALL').upper() raises on a number other than 0 before the first request,
\* and the exception is caught
fetch_user_posts_requests ==
    IF ~calls_fetch_user_posts \/ truthy(arg_user_images_level)
    THEN {} ELSE {"images"}

\* fetch_model_details (200, non-200 or an exception; the request carries no
\* timeout), the user-post fetch, then generate_html_summary and the return.
\* The user-post fetch catches its own exceptions and touches neither the
\* result nor the JSON artifacts followed here.
TaskDetail(f) ==
    /\ pc[f] = "detail"
    /\ ~silent
    /\ netCalls' = [netCalls EXCEPT ![f] =
                       @ \cup {"detail"} \cup fetch_user_posts_requests]
    /\ \E outcome \in {"ok", "non200", "exc"}, summary_ok \in BOOLEAN :
        /\ disk' = [disk EXCEPT
                      ![f].model = IF outcome = "ok" THEN "ok"
                                   ELSE IF outcome = "non200" THEN "err" ELSE @]
        /\ wrote' = [wrote EXCEPT ![f] =
                        @ \cup (IF outcome = "exc" THEN {} ELSE {"model"})
                          \cup (IF summary_ok THEN {"html"} ELSE {})]
        /\ detailFailed' = [detailFailed EXCEPT ![f] = (outcome # "ok")]
        /\ Done(f, detail_result(outcome = "ok", summary_ok))
    /\ UNCHANGED <<backupVars, unitVars, ledgerVars, webVars, envVars, missingFile, ledgerFile, ledgerShape,
                   ledgerOthers, runs, procVars, hash_value,
                   cancel_event, cancel_flag, mfLocal, mainVars, ghostVars>>

\* ------------------------------ calls on a ProcessedFilesManager instance
\* the paths followed through the ledger
LedgerFiles == {f \in Files : f <= 2}

\* numbers of entries for other paths a ledger file starts with
OtherCounts == {0, cleanup_threshold - 1, cleanup_threshold}

\* the paths that have an entry
EntryPaths(entries) == {entries[i].path : i \in 1..Len(entries)}

\* everything outside the ledger, its file and the source directory
batchVars == <<unitVars, registry, disk, missingFile, runs, procVars, cancel_event,
               cancel_flag, taskVars, mainVars, ghostVars>>

\* _load_processed_files that keeps the still_exists flags of the file
load_stored_flags ==
    /\ ledger_call' = "init"
    /\ loadedShape' = ledgerShape
    /\ IF ledgerShape = "nopath"
       THEN /\ manager' = "none"
            /\ processed_files' = EmptyLedger
            /\ ledger_raised' = TRUE
       ELSE IF ledgerShape = "noshape"
       THEN /\ manager' = "raw"
            /\ processed_files' = EmptyLedger
            /\ ledger_raised' = FALSE
       ELSE /\ manager' = "ok"
            /\ processed_files' = [files |-> ledgerFile, others |-> ledgerOthers]
            /\ ledger_raised' = FALSE
    /\ phase' = [p \in Files |-> IF phase[p] = "saved" THEN "reloaded" ELSE "none"]
    /\ UNCHANGED <<backupVars, webVars, batchVars, srcExists, ledgerFile, ledgerShape,
                   ledgerOthers, missCount, purgedAt>>

\* ProcessedFilesManager(output_dir): a fresh instance takes the place of the
\* one held. No file or text that is not JSON gives the empty ledger; JSON
\* of another shape is kept as it is; an entry without 'path' raises KeyError
\* out of the constructor
ProcessedFilesManager ==
    /\ ledger_call' = "init"
    /\ loadedShape' = ledgerShape
    /\ IF ledgerShape = "nopath"
       THEN /\ manager' = "none"
            /\ processed_files' = EmptyLedger
            /\ ledger_raised' = TRUE
       ELSE IF ledgerShape = "noshape"
       THEN /\ manager' = "raw"
            /\ processed_files' = EmptyLedger
            /\ ledger_raised' = FALSE
       ELSE /\ manager' = "ok"
            /\ processed_files' = [files |-> load_processed_files(ledgerFile),
                                   others |-> ledgerOthers]
            /\ ledger_raised' = FALSE
    /\ phase' = [p \in Files |-> IF phase[p] = "saved" THEN "reloaded" ELSE "none"]
    /\ UNCHANGED <<backupVars, webVars, batchVars, srcExists, ledgerFile, ledgerShape,
                   ledgerOthers, missCount, purgedAt>>

\* manager.add_processed_file(p); on a raw instance
\* self.processed_files['files'] raises
AddProcessedFile(p) ==
    /\ manager # "none"
    /\ ledger_call' = "add"
    /\ ledger_raised' = (manager = "raw")
    /\ IF manager = "raw"
       THEN UNCHANGED <<processed_files, phase, missCount, purgedAt>>
       ELSE /\ processed_files' = [processed_files EXCEPT
                                     !.files = add_processed_file(@, p)]
            /\ phase' = [phase EXCEPT ![p] = "added"]
            /\ missCount' = [missCount EXCEPT ![p] = 0]
            /\ purgedAt' = [purgedAt EXCEPT ![p] = 0]
    /\ UNCHANGED <<backupVars, webVars, batchVars, srcExists, ledgerFile, ledgerShape,
                   ledgerOthers, manager, loadedShape>>

\* manager.is_file_processed(p)
IsFileProcessed(p) ==
    /\ manager # "none"
    /\ ledger_call' = "is_file_processed"
    /\ ledger_raised' = (manager = "raw")
    /\ UNCHANGED <<backupVars, webVars, batchVars, srcExists, ledgerFile, ledgerShape,
                   ledgerOthers, manager, processed_files, loadedShape,
                   missCount, purgedAt, phase>>

\* the cleanup pass of a save ran over the entries
cleanup_ran(ledger) == Len(ledger.files) + ledger.others > cleanup_threshold

\* manager.save_processed_files(): the cleanup pass above the threshold, then
\* the write of the file
SaveProcessedFiles ==
    /\ manager # "none"
    /\ ledger_call' = "save"
    /\ ledger_raised' = (manager = "raw")
    /\ IF manager = "raw"
       THEN UNCHANGED <<processed_files, ledgerFile, ledgerShape, ledgerOthers,
                        backups, phase, missCount, purgedAt>>
       ELSE LET kept == save_processed_files(processed_files.files,
                                             processed_files.others)
                missing == IF cleanup_ran(processed_files)
                           THEN {p \in EntryPaths(processed_files.files) :
                                    ~PathExists(p)}
                           ELSE {}
                counted == [p \in Files |->
                               IF p \in missing /\ missCount[p] < 2
                               THEN missCount[p] + 1 ELSE missCount[p]]
            IN /\ processed_files' = [processed_files EXCEPT !.files = kept]
               /\ ledgerFile' = kept
               /\ ledgerShape' = "ok"
               /\ ledgerOthers' = processed_files.others
               /\ backups' = backup_before_save(backups, today,
                                 file_content(ledgerShape, ledgerFile, ledgerOthers))
               /\ missCount' = counted
               /\ purgedAt' = [p \in Files |->
                                 IF p \in EntryPaths(processed_files.files)
                                        \ EntryPaths(kept)
                                 THEN counted[p] ELSE purgedAt[p]]
               /\ phase' = [p \in Files |->
                               IF phase[p] = "added" THEN "saved" ELSE "none"]
    /\ UNCHANGED <<today, webVars, batchVars, srcExists, manager, loadedShape>>

\* the file of a path goes away (deleted, or its drive unmounted)
RemoveFile(p) ==
    /\ srcExists[p]
    /\ srcExists' = [srcExists EXCEPT ![p] = FALSE]
    /\ phase' = [phase EXCEPT ![p] = IF @ = "reloaded" THEN "none" ELSE @]
    /\ UNCHANGED <<backupVars, webVars, batchVars, ledgerFile, ledgerShape, ledgerOthers,
                   manager, processed_files, ledger_call, ledger_raised,
                   loadedShape, missCount, purgedAt>>

\* the file of a path is back; the count of passes that missed it starts anew
RestoreFile(p) ==
    /\ ~srcExists[p]
    /\ srcExists' = [srcExists EXCEPT ![p] = TRUE]
    /\ phase' = [phase EXCEPT ![p] = IF @ = "reloaded" THEN "none" ELSE @]
    /\ missCount' = [missCount EXCEPT ![p] = 0]
    /\ UNCHANGED <<backupVars, webVars, batchVars, ledgerFile, ledgerShape, ledgerOthers,
                   manager, processed_files, ledger_call, ledger_raised,
                   loadedShape, purgedAt>>

\* ProcessedFilesManager.remove_processed_file
remove_processed_file(entries, p) ==
    Filter(entries, {e \in Range(entries) : e.path # p})

\* manager.remove_processed_file(p)
RemoveProcessedFile(p) ==
    /\ manager # "none"
    /\ ledger_call' = "remove"
    /\ ledger_raised' = (manager = "raw")
    /\ IF manager = "raw"
       THEN UNCHANGED <<processed_files, phase>>
       ELSE /\ processed_files' = [processed_files EXCEPT
                                     !.files = remove_processed_file(@, p)]
            /\ phase' = [phase EXCEPT ![p] = "none"]
    /\ UNCHANGED <<backupVars, webVars, batchVars, srcExists, ledgerFile,
                   ledgerShape, ledgerOthers, manager, loadedShape,
                   missCount, purgedAt>>

\* manager.cleanup_old_entries(), called by a client
CleanupOldEntries ==
    /\ manager # "none"
    /\ ledger_call' = "cleanup"
    /\ ledger_raised' = (manager = "raw")
    /\ IF manager = "raw"
       THEN UNCHANGED <<processed_files, missCount, purgedAt>>
       ELSE LET kept == cleanup_old_entries(processed_files.files)
                missing == {p \in EntryPaths(processed_files.files) :
                               ~PathExists(p)}
                counted == [p \in Files |->
                               IF p \in missing /\ missCount[p] < 2
                               THEN missCount[p] + 1 ELSE missCount[p]]
            IN /\ processed_files' = [processed_files EXCEPT !.files = kept]
               /\ missCount' = counted
               /\ purgedAt' = [p \in Files |->
                                 IF p \in EntryPaths(processed_files.files)
                                        \ EntryPaths(kept)
                                 THEN counted[p] ELSE purgedAt[p]]
    /\ UNCHANGED <<backupVars, webVars, batchVars, srcExists, ledgerFile,
                   ledgerShape, ledgerOthers, manager, loadedShape, phase>>

\* -------------------------------------------- web_app.py request handlers
\* Thread.is_alive() of the thread request r made
is_alive(r) == thread[r] \in {"started", "run", "summary"}

\* everything outside the web layer and the flag
nonWebVars == <<backupVars, unitVars, ledgerVars, envVars, storeVars, runs, procVars, cancel_event,
                taskVars, mainVars, ghostVars>>

\* process_all up to its busy test: 409 when processing_thread is alive
process_all_check(r) ==
    /\ request[r] = "idle"
    /\ request' = [request EXCEPT ![r] =
                      IF processing_thread # 0 /\ is_alive(processing_thread)
                      THEN "busy" ELSE "checked"]
    /\ UNCHANGED <<nonWebVars, cancel_flag, processing_thread, thread>>

\* processing_thread = threading.Thread(target=process_all_models_task)
process_all_create(r) ==
    /\ request[r] = "checked"
    /\ processing_thread' = r
    /\ thread' = [thread EXCEPT ![r] = "created"]
    /\ request' = [request EXCEPT ![r] = "created"]
    /\ UNCHANGED <<nonWebVars, cancel_flag>>

\* processing_thread.start(): the global is read again and the thread it
\* names is started. Starting a thread a second time raises RuntimeError,
\* and None has no start()
process_all_start(r) ==
    /\ request[r] = "created"
    /\ IF processing_thread # 0 /\ thread[processing_thread] = "created"
       THEN /\ thread' = [thread EXCEPT ![processing_thread] = "started"]
            /\ request' = [request EXCEPT ![r] = "started"]
       ELSE /\ request' = [request EXCEPT ![r] = "error"]
            /\ UNCHANGED thread
    /\ UNCHANGED <<nonWebVars, cancel_flag, processing_thread>>

\* process_all_models_task clears the flag and calls process_directory
task_begin(r) ==
    /\ thread[r] = "started"
    /\ thread' = [thread EXCEPT ![r] = "run"]
    /\ cancel_flag' = FALSE
    /\ UNCHANGED <<nonWebVars, processing_thread, request>>

\* process_directory returns (or raises) in process_all_models_task: the
\* thread reference and the flag are cleared, the global summary is next
task_run_end(r) ==
    /\ thread[r] = "run"
    /\ thread' = [thread EXCEPT ![r] = "summary"]
    /\ processing_thread' = 0
    /\ cancel_flag' = FALSE
    /\ UNCHANGED <<nonWebVars, request>>

\* the finally block of process_all_models_task, then the thread ends
task_end(r) ==
    /\ thread[r] = "summary"
    /\ thread' = [thread EXCEPT ![r] = "dead"]
    /\ processing_thread' = 0
    /\ cancel_flag' = FALSE
    /\ UNCHANGED <<nonWebVars, request>>

\* /cancel-processing: the flag is set when processing_thread is alive
cancel_processing_request ==
    /\ processing_thread # 0
    /\ is_alive(processing_thread)
    /\ ~cancel_flag
    /\ cancel_flag' = TRUE
    /\ UNCHANGED <<nonWebVars, webVars>>

\* ------------------------------------------------------ specifications
\* the steps of one process_files call: main thread and workers
Batch ==
    \/ SubmitCheck
    \/ Submit
    \/ Collect
    \/ Return
    \/ \E f \in Files : TaskBegin(f)
    \/ \E f \in Files : TaskVersion(f)
    \/ \E f \in Files : TaskMissingWrite(f)
    \/ \E f \in Files : TaskDetail(f)

\* the first process_files call of a client on a new BatchProcessor
FirstDirect(S, html, upd, mw) ==
    runs = 0 /\ StartDirect(S, html, upd, mw)

\* the first process_directory call on an empty output directory
FirstDirectory(html, upd, new, skipm, mw) ==
    runs = 0 /\ process_directory(html, upd, new, skipm, mw)

\* one batch, started by a client of BatchProcessor or by process_directory,
\* with every pool size and every interleaving of the workers
Next ==
    \/ \E S \in SUBSET Files, html \in BOOLEAN, upd \in BOOLEAN,
          mw \in 1..MaxWorkers : FirstDirect(S, html, upd, mw)
    \/ \E html \in BOOLEAN, upd \in BOOLEAN, new \in BOOLEAN,
          skipm \in BOOLEAN, mw \in 1..MaxWorkers :
          FirstDirectory(html, upd, new, skipm, mw)
    \/ cancel
    \/ cancel_processing
    \/ process_directory_finish
    \/ Batch

Spec == Init /\ [][Next]_vars

\* the files of the source directory that the repeated runs follow
RerunFiles == {f \in Files : f <= 2}

\* process_directory called again and again on the same output directory,
\* through a pool of one worker, the registry changing between two calls
NextRerun ==
    \/ \E f \in RerunFiles : RegistryChange(f)
    \/ \E html \in BOOLEAN, upd \in BOOLEAN, new \in BOOLEAN, skipm \in BOOLEAN :
          process_directory(html, upd, new, skipm, 1)
    \/ cancel_processing
    \/ process_directory_finish
    \/ Batch

\* as Init, with a source directory that holds the files of RerunFiles
InitRerun ==
    /\ srcExists = [f \in Files |-> f \in RerunFiles]
    /\ registry \in {r \in [Files -> RegistryStates] :
                        \A f \in Files \ RerunFiles : r[f] = "miss"}
    /\ ledgerShape = "absent"
    /\ ledgerOthers = 0
    /\ DefaultInputs
    /\ InitStore

SpecRerun == InitRerun /\ [][NextRerun]_vars

\* the calls a client makes on ProcessedFilesManager instances while files
\* of the source directory come and go
NextLedger ==
    \/ ProcessedFilesManager
    \/ \E p \in LedgerFiles : AddProcessedFile(p)
    \/ \E p \in LedgerFiles : IsFileProcessed(p)
    \/ SaveProcessedFiles
    \/ \E p \in LedgerFiles : RemoveFile(p)
    \/ \E p \in LedgerFiles : RestoreFile(p)

\* a ledger file of any shape; one that is a ledger holds entries for other
\* paths only
InitLedger ==
    /\ srcExists = [f \in Files |-> TRUE]
    /\ registry = [f \in Files |-> "miss"]
    /\ ledgerShape \in LedgerShapes
    /\ ledgerOthers \in (IF ledgerShape = "ok" THEN OtherCounts ELSE {0})
    /\ DefaultInputs
    /\ InitStore

SpecLedger == InitLedger /\ [][NextLedger]_vars

\* the calls that change a ProcessedFilesManager or its file, made in any
\* order on a ledger that starts empty (no file in the output directory),
\* while model files go away
NextLedgerOps ==
    \/ ProcessedFilesManager
    \/ \E p \in LedgerFiles : AddProcessedFile(p)
    \/ \E p \in LedgerFiles : RemoveProcessedFile(p)
    \/ CleanupOldEntries
    \/ SaveProcessedFiles
    \/ \E p \in LedgerFiles : RemoveFile(p)

InitLedgerOps ==
    /\ srcExists = [f \in Files |-> TRUE]
    /\ registry = [f \in Files |-> "miss"]
    /\ ledgerShape = "absent"
    /\ ledgerOthers = 0
    /\ DefaultInputs
    /\ InitStore

SpecLedgerOps == InitLedgerOps /\ [][NextLedgerOps]_vars

\* /process-all and /cancel-processing requests served by concurrent
\* handler threads, and the processing threads they start
NextWeb ==
    \/ \E r \in Requests : process_all_check(r)
    \/ \E r \in Requests : process_all_create(r)
    \/ \E r \in Requests : process_all_start(r)
    \/ \E r \in Requests : task_begin(r)
    \/ \E r \in Requests : task_run_end(r)
    \/ \E r \in Requests : task_end(r)
    \/ cancel_processing_request

InitWeb ==
    /\ srcExists = [f \in Files |-> TRUE]
    /\ registry = [f \in Files |-> "miss"]
    /\ ledgerShape = "absent"
    /\ ledgerOthers = 0
    /\ DefaultInputs
    /\ InitStore

SpecWeb == InitWeb /\ [][NextWeb]_vars

\* the number of days followed
MaxDay == 7

\* midnight passes
NextDay ==
    /\ today < MaxDay
    /\ today' = today + 1
    /\ UNCHANGED <<backups, webVars, batchVars, srcExists, ledgerFile,
                   ledgerShape, ledgerOthers, ledgerVars>>

\* the path followed through the saves
BackupPaths == {f \in Files : f <= 1}

\* an output directory without backups that holds no ledger file, a ledger
\* without entries, or text that is not JSON
InitBackup ==
    /\ srcExists = [f \in Files |-> TRUE]
    /\ registry = [f \in Files |-> "miss"]
    /\ ledgerShape \in {"absent", "ok", "notjson"}
    /\ ledgerOthers = 0
    /\ DefaultInputs
    /\ InitStore

\* instances are built, extended and saved over the days
NextBackup ==
    \/ ProcessedFilesManager
    \/ \E p \in BackupPaths : AddProcessedFile(p)
    \/ SaveProcessedFiles
    \/ NextDay

SpecBackup == InitBackup /\ [][NextBackup]_vars

\* the number of update_missing_files_list calls followed
MaxCalls == 4

\* update_missing_files_list(base_path, safetensors_path, status_code), the
\* calls coming one after the other, each in a later second
UpdateMissing(name, status_code) ==
    /\ clock < MaxCalls
    /\ clock' = clock + 1
    /\ missingLines' = update_missing_files_list(missingLines, name,
                                                  status_code, clock')
    /\ lastFail' = [lastFail EXCEPT
                       ![name] = IF status_code = "None" THEN 0 ELSE clock']
    /\ UNCHANGED <<sideVars, strVars, pipeVars, pmVars, backupVars, ledgerVars, webVars, envVars,
                   storeVars, runs, procVars, cancel_event, cancel_flag,
                   taskVars, mainVars, ghostVars>>

InitMissing ==
    /\ srcExists = [f \in Files |-> TRUE]
    /\ registry = [f \in Files |-> "miss"]
    /\ ledgerShape = "absent"
    /\ ledgerOthers = 0
    /\ DefaultInputs
    /\ InitStore

NextMissing ==
    \E name \in MissingNames, status_code \in {"404", "None"} :
        UpdateMissing(name, status_code)

SpecMissing == InitMissing /\ [][NextMissing]_vars

\* the longest argument followed, and the characters it is made of: a
\* letter, and the characters the function treats in a way of their own
MaxLen == 4
Chars == {"a", " ", "_", ".", "/"}
Strings == UNION {[1..n -> Chars] : n \in 0..MaxLen}

\* sanitize_filename(s), then sanitize_filename of what it returned
Sanitize ==
    /\ Len(sanitized) < 2
    /\ sanitized' = Append(sanitized,
                           sanitize_filename(IF sanitized = <<>> THEN sanitize_arg
                                             ELSE sanitized[Len(sanitized)]))
    /\ UNCHANGED <<sideVars, sanitize_arg, pipeVars, missVars, pmVars, backupVars,
                   ledgerVars, webVars, envVars, storeVars, runs, procVars,
                   cancel_event, cancel_flag, taskVars, mainVars, ghostVars>>

\* any string of Chars up to MaxLen characters
InitSanitize ==
    /\ srcExists = [f \in Files |-> TRUE]
    /\ registry = [f \in Files |-> "miss"]
    /\ ledgerShape = "absent"
    /\ ledgerOthers = 0
    /\ content = [f \in Files |-> 1]
    /\ readable = [f \in Files |-> TRUE]
    /\ silent = FALSE
    /\ skip_images = FALSE
    /\ user_images_limit = "0"
    /\ others_active = 0
    /\ others_done = 0
    /\ sanitize_arg \in Strings
    /\ SideDefaults
    /\ InitStore

NextSanitize == Sanitize

SpecSanitize == InitSanitize /\ [][NextSanitize]_vars

\* ---------------------------------------------- utils/process_manager.py
\* ProcessManager._max_history
max_history == 100

\* the process ids followed, and the number of calls followed
NumProcs == 2
MaxOps == 4
ProcIds == 1..NumProcs

\* ProcessStatus(filename, status='pending', start_time=now): end_time 0 is
\* None
ProcessStatus(id) == [id |-> id, status |-> "pending", end_time |-> 0]

\* self._processes[process_id] = ...: a known key keeps its place in the
\* dict, a new key goes to the end
dict_set(procs, rec) ==
    IF \E i \in 1..Len(procs) : procs[i].id = rec.id
    THEN [i \in 1..Len(procs) |-> IF procs[i].id = rec.id THEN rec ELSE procs[i]]
    ELSE Append(procs, rec)

RECURSIVE sort_by_end_time(_)
\* processes.sort(key=end_time or datetime.max, reverse=True): records
\* without end_time first, then the latest end_time first; the sort is
\* stable
sort_by_end_time(procs) ==
    IF procs = <<>> THEN <<>>
    ELSE LET key(r) == IF r.end_time = 0 THEN MaxOps + 1 ELSE r.end_time
             m == CHOOSE i \in 1..Len(procs) :
                     /\ \A j \in 1..Len(procs) : key(procs[j]) <= key(procs[i])
                     /\ \A j \in 1..(i - 1) : key(procs[j]) < key(procs[i])
         IN <<procs[m]>> \o
            sort_by_end_time(SubSeq(procs, 1, m - 1)
                               \o SubSeq(procs, m + 1, Len(procs)))

\* the number of records tracked
tracked(active, procs, done) == active + Len(procs) + done

\* _cleanup_old_processes: the first max_history records of the sorted list.
\* The pending records of other ids come first, the records of other ids
\* that completed earliest come last
cleanup_old_processes(active, procs, done) ==
    LET a == IF active < max_history THEN active ELSE max_history
        sorted == sort_by_end_time(procs)
        n == IF Len(sorted) < max_history - a THEN Len(sorted)
             ELSE max_history - a
    IN [active |-> a, procs |-> SubSeq(sorted, 1, n),
        done |-> IF done < max_history - a - n THEN done
                 ELSE max_history - a - n]

\* add_process that never cleans up
add_without_cleanup(active, procs, done, id) ==
    [active |-> active, procs |-> dict_set(procs, ProcessStatus(id)),
     done |-> done]

\* ProcessManager.add_process: the records after the call
add_process(active, procs, done, id) ==
    LET added_ == dict_set(procs, ProcessStatus(id))
    IN IF tracked(active, added_, done) > max_history
       THEN cleanup_old_processes(active, added_, done)
       ELSE [active |-> active, procs |-> added_, done |-> done]

\* update_status that leaves end_time alone
update_without_stamp(procs, id, status, now) ==
    [i \in 1..Len(procs) |->
        IF procs[i].id = id THEN [procs[i] EXCEPT !.status = status]
        ELSE procs[i]]

\* ProcessManager.update_status: the status is set, and end_time when the
\* status is completed or failed; an unknown id changes nothing
update_status(procs, id, status, now) ==
    [i \in 1..Len(procs) |->
        IF procs[i].id = id
        THEN [procs[i] EXCEPT
                !.status = status,
                !.end_time = IF status \in {"completed", "failed"}
                             THEN now ELSE @]
        ELSE procs[i]]

\* everything outside the ProcessManager
nonPmVars == <<sideVars, strVars, pipeVars, missVars, backupVars, ledgerVars, webVars, envVars,
               storeVars, runs, procVars, cancel_event, cancel_flag,
               taskVars, mainVars, ghostVars>>

\* manager.add_process(filename)
AddProcess(id) ==
    /\ pm_now < MaxOps
    /\ pm_now' = pm_now + 1
    /\ pm_call' = IF tracked(others_active,
                              dict_set(processes, ProcessStatus(id)),
                              others_done) > max_history
                  THEN "cleanup" ELSE "add"
    /\ LET after == add_process(others_active, processes, others_done, id)
       IN /\ processes' = after.procs
          /\ others_active' = after.active
          /\ others_done' = after.done
    /\ UNCHANGED nonPmVars

\* manager.update_status(process_id, status)
UpdateStatus(id, status) ==
    /\ pm_now < MaxOps
    /\ pm_now' = pm_now + 1
    /\ pm_call' = "update"
    /\ processes' = update_status(processes, id, status, pm_now')
    /\ UNCHANGED <<others_active, others_done, nonPmVars>>

\* a ProcessManager that tracks none of ProcIds yet and any number of other
\* ids up to the cap
InitProcess ==
    /\ srcExists = [f \in Files |-> TRUE]
    /\ registry = [f \in Files |-> "miss"]
    /\ ledgerShape = "absent"
    /\ ledgerOthers = 0
    /\ content = [f \in Files |-> 1]
    /\ readable = [f \in Files |-> TRUE]
    /\ silent = FALSE
    /\ skip_images = FALSE
    /\ user_images_limit = "0"
    /\ others_active \in {0, max_history - 2, max_history - 1, max_history}
    /\ others_done \in {d \in {0, 1, 2} : others_active + d <= max_history}
    /\ sanitize_arg = <<>>
    /\ SideDefaults
    /\ InitStore

NextProcess ==
    \/ \E id \in ProcIds : AddProcess(id)
    \/ \E id \in ProcIds, status \in {"processing", "completed", "failed"} :
          UpdateStatus(id, status)

SpecProcess == InitProcess /\ [][NextProcess]_vars

\* the model files a client hands to process_files again and again
PipeFiles == {f \in Files : f <= 1}

\* a client builds a BatchProcessor with any skip_images and
\* user_images_limit; some model files of its list may be gone
InitFile ==
    /\ srcExists \in {e \in [Files -> BOOLEAN] :
                         \A f \in Files \ PipeFiles : e[f]}
    /\ registry \in {r \in [Files -> RegistryStates] :
                        \A f \in Files \ PipeFiles : r[f] = "miss"}
    /\ content = [f \in Files |-> 1]
    /\ readable \in {e \in [Files -> BOOLEAN] :
                        \A f \in Files \ PipeFiles : e[f]}
    /\ silent = FALSE
    /\ others_active = 0
    /\ others_done = 0
    /\ sanitize_arg = <<>>
    /\ skip_images \in BOOLEAN
    /\ user_images_limit \in {"0", "1"}
    /\ ledgerShape = "absent"
    /\ ledgerOthers = 0
    /\ SideDefaults
    /\ InitStore

\* process_files called again and again by that client through a pool of
\* one worker, the model files being overwritten between two calls
NextFile ==
    \/ \E f \in PipeFiles : ContentChange(f)
    \/ \E f \in PipeFiles : RecordDamaged(f)
    \/ \E S \in SUBSET PipeFiles, html \in BOOLEAN, upd \in BOOLEAN :
          StartDirect(S, html, upd, 1)
    \/ Batch

SpecFile == InitFile /\ [][NextFile]_vars

\* a client calls process_files again and again on one BatchProcessor with
\* a pool of one worker, and cancel() and reset() at any time
NextCancel ==
    \/ \E S \in SUBSET Files : StartDirect(S, FALSE, FALSE, 1)
    \/ cancel
    \/ reset
    \/ Batch

\* a BatchProcessor built with its defaults; the registry knows the first
\* model file or not
InitCancel ==
    /\ srcExists = [f \in Files |-> TRUE]
    /\ registry \in {r \in [Files -> RegistryStates] :
                        \A f \in Files \ PipeFiles : r[f] = "miss"}
    /\ ledgerShape = "absent"
    /\ ledgerOthers = 0
    /\ DefaultInputs
    /\ InitStore

SpecCancel == InitCancel /\ [][NextCancel]_vars

\* one batch in normal mode
FirstNormal(S, mw) == runs = 0 /\ StartDirect(S, FALSE, FALSE, mw)

\* a registry that answers every request or none
InitTimeout ==
    /\ srcExists = [f \in Files |-> TRUE]
    /\ registry \in [Files -> RegistryStates]
    /\ content = [f \in Files |-> 1]
    /\ readable = [f \in Files |-> TRUE]
    /\ silent \in BOOLEAN
    /\ others_active = 0
    /\ others_done = 0
    /\ sanitize_arg = <<>>
    /\ skip_images = FALSE
    /\ user_images_limit = "0"
    /\ ledgerShape = "absent"
    /\ ledgerOthers = 0
    /\ SideDefaults
    /\ InitStore

NextTimeout ==
    \/ \E S \in SUBSET Files, mw \in 1..MaxWorkers : FirstNormal(S, mw)
    \/ Batch

\* the executor runs every task it can run and the main thread goes on
\* whenever it can: a step of the batch that stays possible is taken
SpecTimeout == InitTimeout /\ [][NextTimeout]_vars /\ WF_vars(Batch)

\* ------------------------------------- model directories of one batch
\* the subdirectories of the source directory and the stems found in them:
\* a plain stem, one that sanitize_filename changes, and what it changes
\* that one into
SubDirs == {"s1", "s2"}
FoundStems == {<<"a">>, <<"a", " ", "x">>, <<"a", "_", "x">>}
FoundPaths == [dir : SubDirs, stem : FoundStems]

\* setup_export_directories: <base_path>/<sanitize_filename(stem)>
setup_export_directories(file_path) == sanitize_filename(file_path.stem)

\* <output_dir>/<file_path.stem>_hash.json of extract_hash
hash_path(output_dir, file_path) ==
    [dir |-> output_dir, base |-> file_path.stem, kind |-> "hash"]

\* <output_dir>/<sanitize_filename(stem)>_civitai_model_version.json of
\* fetch_version_data
civitai_path(output_dir, file_path) ==
    [dir |-> output_dir, base |-> sanitize_filename(file_path.stem),
     kind |-> "version"]

\* everything outside the side components
nonSideVars == <<strVars, pipeVars, missVars, pmVars, backupVars, ledgerVars,
                 webVars, envVars, storeVars, runs, procVars, cancel_event,
                 cancel_flag, taskVars, mainVars, ghostVars>>

\* the files the task i wrote
written_by(i) == {a.path : a \in {b \in artifacts : b.task = i}}

\* the task of found[i] calls setup_export_directories
SetupDirs(i) ==
    /\ model_dir[i] = <<>>
    /\ model_dir' = [model_dir EXCEPT
                        ![i] = setup_export_directories(found[i])]
    /\ UNCHANGED <<found, artifacts, fetchVars, queueVars, nonSideVars>>

\* the task of found[i] calls extract_hash
WriteHash(i) ==
    /\ model_dir[i] # <<>>
    /\ written_by(i) = {}
    /\ artifacts' = artifacts \cup
                      {[task |-> i, path |-> hash_path(model_dir[i], found[i])]}
    /\ UNCHANGED <<found, model_dir, fetchVars, queueVars, nonSideVars>>

\* the task of found[i] calls fetch_version_data, which writes the payload
\* or the error record
WriteVersion(i) ==
    /\ model_dir[i] # <<>>
    /\ Cardinality(written_by(i)) = 1
    /\ artifacts' = artifacts \cup
                      {[task |-> i, path |-> civitai_path(model_dir[i], found[i])]}
    /\ UNCHANGED <<found, model_dir, fetchVars, queueVars, nonSideVars>>

\* a batch over NumFound distinct paths of the source directory, no task
\* started yet
InitDirs ==
    /\ srcExists = [f \in Files |-> TRUE]
    /\ registry = [f \in Files |-> "miss"]
    /\ ledgerShape = "absent"
    /\ ledgerOthers = 0
    /\ content = [f \in Files |-> 1]
    /\ readable = [f \in Files |-> TRUE]
    /\ silent = FALSE
    /\ skip_images = FALSE
    /\ user_images_limit = "0"
    /\ others_active = 0
    /\ others_done = 0
    /\ sanitize_arg = <<>>
    /\ FetchDefaults
    /\ QueueDefaults
    /\ found \in {s \in [1..NumFound -> FoundPaths] :
                     \A i, j \in 1..NumFound : i # j => s[i] # s[j]}
    /\ InitStore

\* the tasks of the pool, in any interleaving
NextDirs ==
    \E i \in 1..NumFound : SetupDirs(i) \/ WriteHash(i) \/ WriteVersion(i)

SpecDirs == InitDirs /\ [][NextDirs]_vars

\* --------------------------------- user-content fetch, /api/v1/images
\* what the endpoint can answer to one page request: a failure (a status
\* other than 200, no JSON, an exception), or a page with items of the
\* version asked for (own), items of other versions of the model (other)
\* and a metadata.nextPage cursor or none
Pages == [status : {"ok", "fail"}, own : 0..1, other : 0..1, next : BOOLEAN]

\* the limits fetch_user_images is called with
Limits == 0..2

\* the items of a page as fetch_user_posts takes them
posts_items(pg) == pg.own + pg.other

\* the items of a page as fetch_user_images takes them: while the version
\* filter is in force the items of other versions are dropped
images_items(pg) ==
    IF model_version_id /\ ~tried_fallback THEN pg.own
    ELSE pg.own + pg.other

\* fetch_user_posts falls back: no items, model_version_id set, params built
\* in this iteration with 'modelVersionId'
posts_fallback(items) ==
    /\ items = 0 /\ model_version_id
    /\ ~next_page_url /\ params_filter = "version"

\* the fallback test of fetch_user_images without tried_fallback
images_fallback_again(items) ==
    items = 0 /\ ~next_page_url /\ model_version_id

\* fetch_user_images falls back: first page empty, model_version_id set, no
\* fallback tried yet
images_fallback(items) ==
    items = 0 /\ ~next_page_url /\ model_version_id /\ ~tried_fallback

\* the call of the fetch up to its loop; fetch_user_images returns 0 at once
\* for a limit of 0
FetchStart ==
    /\ fetch_pc = "idle"
    /\ fetch_pc' = IF fetcher = "images" /\ total_requested = 0
                   THEN "done" ELSE "loop"
    /\ UNCHANGED <<fetcher, model_version_id, params_filter, next_page_url,
                   tried_fallback, total_requested, downloaded, page,
                   page_requests, fallbacks, dirVars, queueVars, nonSideVars>>

\* one iteration of the loop of fetch_user_posts: the request and what
\* follows its answer pg
PostsPage(pg) ==
    /\ fetcher = "posts" /\ fetch_pc = "loop"
    /\ page_requests < MaxPages
    /\ page_requests' = page_requests + 1
    /\ page' = pg
    /\ IF pg.status = "fail"
       THEN /\ fetch_pc' = "done"
            /\ UNCHANGED <<model_version_id, params_filter, next_page_url,
                           fallbacks>>
       ELSE IF posts_items(pg) = 0 /\ model_version_id /\ next_page_url
       THEN /\ fetch_pc' = "done"
            /\ UNCHANGED <<model_version_id, params_filter, next_page_url,
                           fallbacks>>
       ELSE IF posts_fallback(posts_items(pg))
       THEN /\ model_version_id' = FALSE
            /\ next_page_url' = FALSE
            /\ params_filter' = "model"
            /\ fallbacks' = fallbacks + 1
            /\ fetch_pc' = "loop"
       ELSE IF posts_items(pg) = 0
       THEN /\ fetch_pc' = "done"
            /\ UNCHANGED <<model_version_id, params_filter, next_page_url,
                           fallbacks>>
       ELSE /\ next_page_url' = pg.next
            /\ fetch_pc' = IF pg.next THEN "loop" ELSE "done"
            /\ UNCHANGED <<model_version_id, params_filter, fallbacks>>
    /\ UNCHANGED <<fetcher, tried_fallback, total_requested, downloaded,
                   dirVars, queueVars, nonSideVars>>

\* one iteration of the loop of fetch_user_images: fetch_page and what
\* follows its answer pg; every download of an item can fail
ImagesPage(pg) ==
    /\ fetcher = "images" /\ fetch_pc = "loop"
    /\ page_requests < MaxPages
    /\ page_requests' = page_requests + 1
    /\ page' = pg
    /\ IF pg.status = "fail"
       THEN /\ fetch_pc' = "done"
            /\ UNCHANGED <<params_filter, next_page_url, tried_fallback,
                           downloaded, fallbacks>>
       ELSE IF images_fallback(images_items(pg))
       THEN /\ params_filter' = "model"
            /\ tried_fallback' = TRUE
            /\ next_page_url' = FALSE
            /\ fallbacks' = fallbacks + 1
            /\ fetch_pc' = "loop"
            /\ UNCHANGED downloaded
       ELSE IF images_items(pg) = 0
       THEN /\ fetch_pc' = "done"
            /\ UNCHANGED <<params_filter, next_page_url, tried_fallback,
                           downloaded, fallbacks>>
       ELSE \E got \in 0..images_items(pg) :
               /\ downloaded + got <= total_requested
               /\ downloaded' = downloaded + got
               /\ IF downloaded' >= total_requested
                  THEN fetch_pc' = "done" /\ UNCHANGED next_page_url
                  ELSE /\ next_page_url' = pg.next
                       /\ fetch_pc' = IF pg.next THEN "loop" ELSE "done"
               /\ UNCHANGED <<params_filter, tried_fallback, fallbacks>>
    /\ UNCHANGED <<fetcher, model_version_id, total_requested, dirVars,
                   queueVars, nonSideVars>>

\* either fetch, called with or without a version id, fetch_user_images
\* with any limit
InitFetch ==
    /\ srcExists = [f \in Files |-> TRUE]
    /\ registry = [f \in Files |-> "miss"]
    /\ ledgerShape = "absent"
    /\ ledgerOthers = 0
    /\ content = [f \in Files |-> 1]
    /\ readable = [f \in Files |-> TRUE]
    /\ silent = FALSE
    /\ skip_images = FALSE
    /\ user_images_limit = "0"
    /\ others_active = 0
    /\ others_done = 0
    /\ sanitize_arg = <<>>
    /\ found = <<>>
    /\ QueueDefaults
    /\ fetcher \in {"posts", "images"}
    /\ model_version_id \in BOOLEAN
    /\ params_filter = IF model_version_id THEN "version" ELSE "model"
    /\ total_requested \in (IF fetcher = "images" THEN Limits ELSE {0})
    /\ InitStore

NextFetch ==
    \/ FetchStart
    \/ \E pg \in Pages : PostsPage(pg)
    \/ \E pg \in Pages : ImagesPage(pg)

SpecFetch == InitFetch /\ [][NextFetch]_vars

\* ------------------------------------- ProcessManager, the queue worker
\* what a queued function does once called: it returns, raises an exception
\* that derives from Exception, raises one that does not (SystemExit,
\* KeyboardInterrupt), or never returns
Behaviours == {"returns", "raises", "exits", "blocks"}

\* ProcessManager.queue_process(func): _queue.put, from any thread
QueueProcess(f) ==
    /\ f \notin Range(put_order)
    /\ queue' = Append(queue, f)
    /\ put_order' = Append(put_order, f)
    /\ UNCHANGED <<behaviour, worker, current, executed, dirVars, fetchVars,
                   nonSideVars>>

\* _process_queue: _queue.get() returns the oldest entry and func is called
WorkerGet ==
    /\ worker = "waiting"
    /\ queue # <<>>
    /\ current' = Head(queue)
    /\ queue' = Tail(queue)
    /\ executed' = Append(executed, Head(queue))
    /\ worker' = "running"
    /\ UNCHANGED <<behaviour, put_order, dirVars, fetchVars, nonSideVars>>

\* _process_queue after func(*args, **kwargs): a return and an Exception
\* lead back to _queue.get(); any other exception passes both except
\* clauses and ends the thread; a function that never returns keeps the
\* worker
WorkerFinish ==
    /\ worker = "running"
    /\ behaviour[current] # "blocks"
    /\ worker' = IF behaviour[current] = "exits" THEN "dead" ELSE "waiting"
    /\ current' = 0
    /\ UNCHANGED <<behaviour, queue, put_order, executed, dirVars, fetchVars,
                   nonSideVars>>

\* the steps of the worker thread
Worker == WorkerGet \/ WorkerFinish

\* a ProcessManager just built, and the functions clients will queue
InitQueue ==
    /\ srcExists = [f \in Files |-> TRUE]
    /\ registry = [f \in Files |-> "miss"]
    /\ ledgerShape = "absent"
    /\ ledgerOthers = 0
    /\ content = [f \in Files |-> 1]
    /\ readable = [f \in Files |-> TRUE]
    /\ silent = FALSE
    /\ skip_images = FALSE
    /\ user_images_limit = "0"
    /\ others_active = 0
    /\ others_done = 0
    /\ sanitize_arg = <<>>
    /\ found = <<>>
    /\ FetchDefaults
    /\ behaviour \in [Funcs -> Behaviours]
    /\ InitStore

NextQueue ==
    \/ \E f \in Funcs : QueueProcess(f)
    \/ WorkerGet
    \/ WorkerFinish

\* the worker is a thread of its own: a step it can take is taken
SpecQueue == InitQueue /\ [][NextQueue]_vars /\ WF_vars(Worker)

\* ------------------------------------------------------------- claims
Submitted == Range(futures)
Succeeded == {f \in Files : result[f] = "true"}

\* C1: in a second process_directory run over an unchanged source directory
\* and an unchanged registry, a file whose first run succeeded stops at the
\* staleness check: it is reported as processed, no version or model-detail
\* request is made for it and no artifact file is written for it. (The
\* formula leaves aside the hash and metadata records, written next to the
\* check, and a run in which creating the directories raised.)
C1_SecondRunShortCircuits ==
    \A f \in Files :
        (/\ ~direct /\ ~html_only /\ ~only_update
         /\ quiet /\ f \in prevOk
         /\ opc \in {"check", "submit", "collect", "returned"})
        => /\ netCalls[f] \cap {"version", "detail"} = {}
           /\ wrote[f] \cap {"version", "model"} = {}
           /\ (pc[f] = "done" /\ result[f] # "raised") => result[f] = "true"

\* C2: after a process_directory run that is neither html_only nor
\* only_update, the paths added to the ledger in that run are exactly the
\* files whose task returned success.
C2_LedgerHoldsTheSuccesses ==
    (/\ opc = "idle" /\ runs > 0
     /\ ~direct /\ ~html_only /\ ~only_update)
    => added = Succeeded

\* process_files has returned: every submitted task is done and counted
SubmittedAllCounted ==
    opc = "returned" =>
        /\ \A f \in Submitted : pc[f] = "done"
        /\ metrics.processed_files + metrics.failed_files = Len(futures)

\* a file that was not submitted has not been started and nothing was written
\* for it
UnsubmittedUntouched ==
    \A f \in Files \ Submitted : wrote[f] = {} /\ pc[f] = "idle"

\* C3 as stated: once the cancel flag is set, process_files submits no
\* further task; every task submitted runs to completion and is counted
\* before process_files returns; a file never submitted has no directory or
\* JSON artifact written for it.
C3_NoSubmitOnceFlagSet ==
    [][/\ cancel_event => futures' = futures
       /\ SubmittedAllCounted'
       /\ UnsubmittedUntouched']_vars

\* C3 as amended: once the flag is set and the main thread is not between
\* the flag check and the submit of one file, no task is submitted and the
\* loop passes no further flag check (the one file whose check had passed
\* before the flag was set still goes through); every task
\* submitted runs to completion and is counted before process_files
\* returns; a file never submitted has no directory or JSON artifact
\* written for it.
C3_NoSubmitOnceFlagSeen ==
    [][/\ (cancel_event /\ opc # "submit")
            => (futures' = futures /\ opc' # "submit")
       /\ SubmittedAllCounted'
       /\ UnsubmittedUntouched']_vars

\* a cancelled call has returned: part of the list was submitted and ran to
\* the end of the pipeline, the rest was never started
C3_Witness ==
    /\ opc = "returned" /\ cancel_event
    /\ 0 < Len(futures) /\ Len(futures) < Len(files)
    /\ \E f \in Submitted : result[f] = "true" /\ "model" \in wrote[f]
    /\ \E f \in Range(files) \ Submitted : wrote[f] = {}

\* C4: when the cancel_flag handed to process_directory is set while the
\* batch is running, the submit loop submits no file whose flag check comes
\* after that.
C4_WebFlagStopsSubmission ==
    [][(~direct /\ cancel_flag /\ opc = "check") => opc' # "submit"]_vars

\* C5: after a process_files call during which the cancel flag was never
\* set, processed_files + failed_files + skipped_files = total_files =
\* len(files).
C5_CountersAddUp ==
    (opc = "returned" /\ ~cancel_event)
    => /\ metrics.processed_files + metrics.failed_files
            + metrics.skipped_files = metrics.total_files
       /\ metrics.total_files = Len(files)

\* an uncancelled call over two files has returned, one task succeeded and
\* one raised
C5_Witness ==
    /\ opc = "returned" /\ ~cancel_event
    /\ Len(files) = 2
    /\ \E f \in Submitted : result[f] = "raised"
    /\ metrics.processed_files = 1 /\ metrics.failed_files = 1

\* C6: after any process_files call has returned, cancelled or not,
\* processed_files + failed_files is the number of tasks submitted, which is
\* at most total_files.
C6_CountedEqualsSubmitted ==
    opc = "returned"
    => /\ metrics.processed_files + metrics.failed_files = Len(futures)
       /\ Len(futures) <= metrics.total_files

\* a cancelled call has returned with fewer tasks submitted than files
C6_Witness ==
    /\ opc = "returned" /\ cancel_event
    /\ Len(futures) = 1 /\ metrics.total_files = 2
    /\ metrics.processed_files + metrics.failed_files = 1

\* C7: after a process_files call in which cancellation stopped the
\* submission early, skipped_files = total_files - number of tasks submitted.
C7_SkippedIsTheRemainder ==
    (opc = "returned" /\ cancel_event /\ Len(futures) < Len(files))
    => metrics.skipped_files = metrics.total_files - Len(futures)

\* C8: a task that raises or fails is counted as failed, and every other
\* submitted task is still run to the end and counted: at the return the
\* counters are the numbers of submitted tasks that succeeded and that did
\* not.
C8_OneFailureDoesNotAbort ==
    opc = "returned"
    => /\ \A f \in Submitted : pc[f] = "done"
       /\ metrics.failed_files = Cardinality(Submitted \ Succeeded)
       /\ metrics.processed_files = Cardinality(Submitted \cap Succeeded)

\* the first task of the batch raised, a later one went through
C8_Witness ==
    /\ opc = "returned"
    /\ Len(futures) = 2
    /\ result[futures[1]] = "raised" /\ result[futures[2]] = "true"
    /\ metrics.failed_files = 1 /\ metrics.processed_files = 1

\* C9: when the version fetch yields a model id and the model-detail fetch
\* fails, process returns false for the file, and the hash, metadata and
\* version artifacts written before are still on disk. (The formula leaves
\* aside a run in which the summary generator raised.)
C9_DetailFailureFailsTheFile ==
    \A f \in Files :
        (pc[f] = "done" /\ detailFailed[f] /\ result[f] # "raised")
        => /\ result[f] = "false"
           /\ disk[f].hash /\ disk[f].metadata /\ disk[f].version \in Stamps

\* C10: when a file name is listed in missing_from_civitai.txt and a later
\* version fetch for a file of that name is answered 200, the list holds no
\* line for that name afterwards.
C10_ListedNamePrunedOn200 ==
    \A f \in Files :
        (/\ pc[f] \in {"detail", "done"}
         /\ "version" \in wrote[f]
         /\ disk[f].version \in Stamps)
        => Name(f) \notin missing_models

\* the lines of the missing list that carry a name
LinesOf(lines, name) == {i \in 1..Len(lines) : lines[i].name = name}

C13_PurgeOnlyAfterEarlierMiss ==
    \A p \in Files : purgedAt[p] # 1

\* C14: an entry whose file was removed is absent from the ledger, in memory
\* and in the file, after two cleanup passes that both found the file
\* missing.
C14_TwoMissesEvict ==
    \A p \in Files :
        missCount[p] = 2
        => /\ p \notin EntryPaths(processed_files.files)
           /\ p \notin EntryPaths(ledgerFile)

\* the second pass over a removed file has just purged its entry
C14_Witness ==
    \E p \in LedgerFiles :
        /\ ledger_call = "save" /\ ~ledger_raised
        /\ ~srcExists[p]
        /\ missCount[p] = 2 /\ purgedAt[p] = 2
        /\ p \notin EntryPaths(ledgerFile)

\* C15: process_directory never propagates an exception; whatever the
\* ledger, the discovery and the batch do, it returns three non-negative
\* integers.
C15_AlwaysATuple ==
    /\ dir_result.kind # "raised"
    /\ dir_result.kind = "tuple" => \A i \in 1..3 : dir_result.value[i] \in Nat

\* C16: constructing the ledger over no file, text that is not JSON or JSON
\* of another shape never fails and gives an empty ledger on which the
\* later calls work.
C16_ConstructorNeverFails ==
    loadedShape \in {"absent"} \cup BadShapes
    => /\ ~ledger_raised
       /\ manager = "ok"
       /\ ledger_call = "init"
             => \A p \in Files : ~is_file_processed(processed_files.files, p)

\* C17: process_single_file never raises; every failure ends in a true or
\* false result.
C17_ProcessNeverRaises ==
    \A f \in Files : result[f] # "raised"

\* C18: while process_files is running, missing_from_civitai.txt and the
\* ledger file are not written.
C18_WorkersLeaveTheListsAlone ==
    [][(opc \in {"check", "submit", "collect"})
         => (missingFile' = missingFile /\ ledgerFile' = ledgerFile)]_vars

\* C19: at most one thread started by /process-all is inside
\* process_directory at any time.
C19_OneRunAtATime ==
    Cardinality({r \in Requests : thread[r] = "run"}) <= 1

\* the hash, model-version and model records of a model directory exist
CoreArtifacts(d) == d.hash /\ d.version # "none" /\ d.model # "none"

\* C20: in html_only mode the task returns true exactly when the three core
\* JSON artifacts exist in the model directory, and it makes no request and
\* writes no JSON artifact. (The formula leaves aside a task in which
\* creating the directories or the summary generator raised.)
C20_HtmlOnlyNeedsTheThree ==
    \A f \in Files :
        (html_only /\ pc[f] = "done" /\ result[f] # "raised")
        => /\ result[f] = "true" <=> CoreArtifacts(disk[f])
           /\ netCalls[f] = {}
           /\ wrote[f] \cap {"hash", "metadata", "version", "model"} = {}

\* C21: a task that obtains no hash (the source file is gone or cannot be
\* read in normal mode; the hash record is absent, does not parse or holds
\* no hash_value in only_update mode) does not raise: it ends with False,
\* and it has made no request to the registry.
C21_NoHashGivesFalseWithoutRequest ==
    \A f \in Files :
        (pc[f] = "done" /\ ~html_only
            /\ (hash_value[f] = "None"
                \/ (hash_value[f] = "unset" /\ ~srcExists[f])))
        => (result[f] = "false" /\ netCalls[f] = {})

\* an only_update task that found a damaged hash record
C21_Witness ==
    \E f \in Files :
        /\ pc[f] = "done" /\ hash_value[f] = "None" /\ srcExists[f]
        /\ ~html_only /\ only_update /\ disk[f].digest = "bad"

\* C22: with user_images_limit 0, or with skip_images, no task of a batch
\* sends a request to the user-content endpoint /api/v1/images.
C22_NoUserContentRequestWithoutLimit ==
    \A f \in Files :
        (user_images_limit = "0" \/ skip_images) => "images" \notin netCalls[f]

\* C23: when a file whose artifacts are on disk is hashed again and the
\* digest differs from the recorded one, the old hash record stays as it is
\* (the artifacts of the new content go to another directory).
C23_ChangedContentKeepsOldRecord ==
    [][\A f \in Files :
         (/\ disk[f].digest \in Range(Digests)
          /\ disk[f].version \in Stamps /\ disk[f].model = "ok"
          /\ hash_value[f] = "unset"
          /\ hash_value'[f] \notin {"unset", "None", disk[f].digest})
         => disk'[f].digest = disk[f].digest]_vars

\* C25: every task of a batch ends (True, False or an exception), whatever
\* the registry does with the requests.
C25_EveryTaskTerminates ==
    \A f \in Files : (pc[f] = "queued") ~> (pc[f] = "done")

C26_BackupsBoundedAndCurrent ==
    [][(SaveProcessedFiles /\ ~ledger_raised')
       => /\ Cardinality(backups') <= max_backups
          /\ ledgerShape # "absent"
               => \E b \in backups' :
                     b.content = file_content(ledgerShape, ledgerFile, ledgerOthers)]_vars

\* a save on the sixth day or later that found five backups of earlier days
C26_Witness ==
    /\ ledger_call = "save" /\ ~ledger_raised
    /\ Cardinality(backups) = max_backups
    /\ today > max_backups
    /\ \E b \in backups : b.day = today
    /\ \A b \in backups : b.day > 1

\* C27: after update_missing_files_list calls made one at a time, the list
\* holds one line for every name whose last call recorded a failure, that of
\* its last failure, and no other line.
C27_OneLinePerName ==
    /\ Len(missingLines) = Cardinality(Range(missingLines))
    /\ Range(missingLines) =
          {format_entry(lastFail[n], "404", n) :
              n \in {m \in MissingNames : lastFail[m] # 0}}

\* C28: after any add_process and update_status calls, every record whose
\* status is completed or failed has its end_time set.
C28_FinishedHasEndTime ==
    \A i \in 1..Len(processes) :
        processes[i].status \in {"completed", "failed"}
        => processes[i].end_time # 0

\* a record that was completed, and one that failed
C28_Witness ==
    /\ \E i \in 1..Len(processes) : processes[i].status = "completed"
    /\ \E i \in 1..Len(processes) : processes[i].status = "failed"

\* C29: after an add_process call the ProcessManager tracks at most
\* max_history (100) records.
C29_HistoryBounded ==
    pm_call \in {"add", "cleanup"}
    => tracked(others_active, processes, others_done) <= max_history

\* an add_process call that ran the cleanup over pending and completed
\* records
C29_Witness ==
    /\ pm_call = "cleanup"
    /\ tracked(others_active, processes, others_done) = max_history
    /\ others_active > 0
    /\ \E i \in 1..Len(processes) : processes[i].end_time # 0

\* C30: for every string s, sanitize_filename(sanitize_filename(s)) is
\* sanitize_filename(s).
C30_SanitizeIdempotent ==
    Len(sanitized) = 2 => sanitized[2] = sanitized[1]

\* the ids of the followed records that are pending or processing
unfinished(procs) ==
    {procs[i].id : i \in {j \in 1..Len(procs) :
                             procs[j].status \in {"pending", "processing"}}}

\* C31: an add_process(id) call evicts no pending or processing record: the
\* record of id is tracked when the call returns, and so is every record
\* that was pending or processing before it.
C31_EvictsOnlyFinished ==
    [][\A id \in ProcIds :
          AddProcess(id)
          => /\ id \in unfinished(processes')
             /\ unfinished(processes) \subseteq unfinished(processes')
             /\ others_active' = others_active]_vars

\* a file whose previous full run returned true and left its version and
\* model records, still in the source directory
FullyProcessed ==
    {f \in Files : /\ f \in prevOk /\ srcExists[f]
                   /\ disk[f].version # "none" /\ disk[f].model # "none"}

\* C32: the artifacts a successful full run wrote for a model file are found
\* by the next run over the same directory, whatever the file is called: a
\* process_directory call that discovers in update-only mode selects the
\* file, and an html_only task of the file returns true. (The formula leaves
\* aside a task in which creating the directories or the summary generator
\* raised.)
C32_LaterRunsFindTheArtifacts ==
    [][/\ \A html \in BOOLEAN, new \in BOOLEAN, skipm \in BOOLEAN :
             (/\ process_directory(html, TRUE, new, skipm, 1)
              /\ ~(new /\ ~html) /\ opc' = "check")
             => FullyProcessed \subseteq Range(files')
       /\ \A f \in FullyProcessed :
             (/\ ~direct /\ html_only /\ pc[f] # "done" /\ pc'[f] = "done"
              /\ result'[f] # "raised")
             => result'[f] = "true"]_vars

\* the files whose by-hash lookup was answered with a non-200 status in this
\* batch and whose task has ended
AnsweredMissing ==
    {f \in Files : /\ pc[f] = "done" /\ "version" \in netCalls[f]
                   /\ "version" \in wrote[f] /\ disk[f].version = "err"}

\* C33: when process_files has returned, every file whose by-hash lookup was
\* answered with a non-200 status in that batch has a line in
\* missing_from_civitai.txt, however the worker threads interleaved.
C33_NoMissingLineIsLost ==
    opc = "returned"
    => \A f \in AnsweredMissing : LinesOf(missingFile, Name(f)) # {}

\* C34: distinct discovered files are given distinct model directories, and
\* no two tasks of one batch write the same artifact path.
C34_TasksWriteApart ==
    /\ \A i, j \in 1..NumFound :
          (i # j /\ model_dir[i] # <<>> /\ model_dir[j] # <<>>)
          => model_dir[i] # model_dir[j]
    /\ \A a, b \in artifacts : a.task # b.task => a.path # b.path

\* the entries hold every path once
unique_paths(entries) ==
    \A i, j \in 1..Len(entries) : entries[i].path = entries[j].path => i = j

\* C35: on a ledger that starts empty, after any add, remove, cleanup, save
\* and reload calls no two entries of the instance or of the file hold the
\* same path; add_processed_file on a path that has an entry adds none and
\* sets still_exists of that entry.
C35_PathsAreUnique ==
    [][/\ unique_paths(processed_files'.files)
       /\ unique_paths(ledgerFile')
       /\ \A p \in LedgerFiles :
             (AddProcessedFile(p) /\ p \in EntryPaths(processed_files.files))
             => /\ Len(processed_files'.files) = Len(processed_files.files)
                /\ is_file_processed(processed_files'.files, p)]_vars

\* add_processed_file was called on the path of the first entry while the
\* second entry stays flagged by a cleanup pass: the first entry was there
\* before the call
C35_Witness ==
    /\ ledger_call = "add" /\ ~ledger_raised
    /\ Len(processed_files.files) = 2
    /\ processed_files.files[1].still_exists
    /\ ~PathExists(processed_files.files[1].path)
    /\ ~processed_files.files[2].still_exists

\* the page just answered is the first one asked with the version filter
FirstVersionPage == page_requests = 0 /\ params_filter = "version"

\* the parts of C36 that do not depend on what counts as an empty page: at
\* most one fallback; after it the filter is the model id; after it an
\* answered page that is empty or has no nextPage cursor ends the fetch
FallbackOnceThenModel ==
    /\ fallbacks' <= 1
    /\ fallbacks' = 1 => params_filter' = "model"
    /\ (/\ fallbacks = 1 /\ page_requests' = page_requests + 1
        /\ page'.status = "ok"
        /\ (page'.own + page'.other = 0 \/ ~page'.next))
       => fetch_pc' = "done"

\* C36 as stated: the fetch falls back at most once and only when the first
\* page asked with the version filter returned no items; after it the fetch
\* goes on with the model-id filter and ends at an empty page or a page
\* without nextPage cursor.
C36_FallbackOnEmptyFirstPage ==
    [][/\ FallbackOnceThenModel
       /\ fallbacks' > fallbacks
          => (FirstVersionPage /\ page'.own + page'.other = 0)]_vars

\* C36 as amended: the fallback happens at most once and only when the first
\* page asked with the version filter holds no item the fetch takes:
\* fetch_user_posts takes every item, fetch_user_images only the items that
\* carry the version id, so it also falls back from a first page that holds
\* items of other versions only. The rest is as stated.
C36_FallbackOnNoItemOfTheVersion ==
    [][/\ FallbackOnceThenModel
       /\ fallbacks' > fallbacks
          => /\ FirstVersionPage
             /\ page'.own = 0
             /\ fetcher = "posts" => page'.other = 0]_vars

\* a fetch that fell back, got a page with a cursor under the model-id
\* filter and ended at the page after it
C36_Witness ==
    /\ fallbacks = 1 /\ fetch_pc = "done"
    /\ page_requests >= 3 /\ page.status = "ok"
    /\ params_filter = "model"

\* C37: a cancel() stays in effect for the process_files calls that begin
\* after it on the same BatchProcessor: such a call submits no task and
\* counts nothing, until reset() is called; reset() clears the flag, and a
\* flag check that finds it clear with a file left goes on to submit.
C37_CancelHoldsUntilReset ==
    [][/\ (direct' /\ cancel_held')
          => /\ futures' = <<>>
             /\ metrics'.processed_files = 0 /\ metrics'.failed_files = 0
       /\ (cancel_event /\ ~cancel_event')
          => (~cancel_held' /\ metrics' = ProcessingMetrics)
       /\ (/\ direct /\ opc = "check" /\ opc' # "check"
           /\ ~cancel_event /\ subIdx <= Len(files))
          => opc' = "submit"]_vars

\* a second process_files call over two files that began after cancel() and
\* returned without a submission
C37_Witness ==
    /\ direct /\ runs = 2 /\ cancel_held
    /\ opc = "returned" /\ Len(files) = 2
    /\ futures = <<>>

\* s is the beginning of t
IsPrefix(s, t) == Len(s) <= Len(t) /\ SubSeq(t, 1, Len(s)) = s

\* C38: the worker calls the queued functions one at a time in the order
\* queue_process got them, and every function queued is called in the end,
\* also when a function called before it raised an exception. (The formula
\* leaves aside a queue that holds a function that never returns.)
C38_QueuedIsExecutedInOrder ==
    /\ [](IsPrefix(executed, put_order))
    /\ \A f \in Funcs :
          (f \in Range(put_order) /\ \A g \in Funcs : behaviour[g] # "blocks")
          ~> (f \in Range(executed))
====
